---- MODULE Spec2Model ----
(***************************************************************************)
(* A model of the BM25 retrieval run (ir_system.py) and of the two         *)
(* evaluation scripts (trec_eval.py, evaluate_map.py).                     *)
(*                                                                         *)
(* Strings are sequences of one-character strings, so that formatting,     *)
(* splitting and parsing are computed character by character; a file is    *)
(* its text.  Integers read from text are of any size (sign and digits in  *)
(* base 2^15).  Floats are IEEE 754 binary64 values and every float        *)
(* operation rounds as the hardware does, so that scores, metrics and      *)
(* their four-decimal renderings are the ones Python computes.             *)
(***************************************************************************)
EXTENDS Integers, Sequences, FiniteSets, TLC

VARIABLES
    argv,            \* the command line arguments after the script name
    files,           \* the file system: path -> text
    ir_pc,           \* position of ir_system.run_system
    ir_exc,          \* the exception run_system ended with
    use_full_text,   \* run_system parameter
    output_file,     \* run_system parameter, <<>> for None
    run_tag,         \* run_system parameter, <<>> for None
    corpus,          \* which corpus file is being read: "small" or "bulk"
    inverted_index,  \* term -> postings list of <<doc_id, tf>>
    doc_lengths,     \* doc_id -> token count
    total_tokens,
    num_docs,
    avg_doc_length,  \* a float (the int 0 of an empty corpus is 0.0)
    num_queries,     \* query records read so far by run_system
    q_id,            \* id of the query processed last, <<>> before the first
    q_tokens,        \* tokens of the query processed last
    doc_scores,      \* score_query's result for it, in insertion order
    sorted_docs,     \* the ranked tuples emitted for it
    run_results,     \* run_system's list `results`
    pc,              \* position of trec_eval.main
    exc,             \* the exception trec_eval.main caught
    qrels,           \* trec_eval: query id -> set of relevant doc ids
    results,         \* trec_eval: query id -> list of (doc_id, rank, score)
    all_metrics,
    query_metrics,
    stdout,          \* trec_eval: the strings printed, one per print call
    exit_code,       \* trec_eval: -1 while it runs
    em_pc,           \* position of evaluate_map.main
    em_exc,          \* the exception evaluate_map.main ended with
    em_qrels,        \* evaluate_map: the dict of load_qrels, keys in order
    em_results,      \* evaluate_map: query id -> list of (doc_id, rank, score)
    map_score,       \* calculate_map's first result
    query_aps,       \* calculate_map's second result: query id -> AP
    em_stdout,       \* evaluate_map: the strings printed
    em_exit_code     \* evaluate_map: -1 while it runs

envVars == <<argv, files>>

irVars == <<ir_pc, ir_exc, use_full_text, output_file, run_tag, corpus,
            inverted_index, doc_lengths, total_tokens, num_docs, avg_doc_length,
            num_queries, q_id, q_tokens, doc_scores, sorted_docs, run_results>>

trecVars == <<pc, exc, qrels, results, all_metrics, query_metrics, stdout, exit_code>>

mapVars == <<em_pc, em_exc, em_qrels, em_results, map_score, query_aps, em_stdout,
             em_exit_code>>

vars == <<envVars, irVars, trecVars, mapVars>>

(***************************************************************************)
(* Bounds of the model.                                                    *)
(***************************************************************************)
MaxDocs == 2
MaxQueries == 2
BulkDocs == 101
MaxResultLines == 2

(***************************************************************************)
(* Generic helpers.                                                        *)
(***************************************************************************)
Range(s) == {s[i] : i \in DOMAIN s}

Min(m, n) == IF m <= n THEN m ELSE n

Max(m, n) == IF m >= n THEN m ELSE n

MinOf(S) == CHOOSE m \in S : \A n \in S : m <= n

\* the largest number of S is the one whose opposite is the smallest
MaxOf(S) == 0 - MinOf({0 - n : n \in S})

\* "v = <expression>; <the rest>": Op applied to the value of an expression,
\* which is computed first (the test v = v needs it), as an assignment does
Bind(v, Op(_)) == CASE v = v -> Op(v)

RECURSIVE SeqsUpTo(_, _)
SeqsUpTo(S, n) ==
    IF n = 0 THEN {<<>>}
    ELSE Bind(SeqsUpTo(S, n - 1),
              LAMBDA shorter : shorter \cup {Append(s, e) : s \in shorter, e \in S})

EmptyMap == [e \in {} |-> 0]

\* "for i in lo..hi: st = Step(st, i)".  The range is split in halves, and
\* the state reached so far is computed (the test st = st needs its value)
\* before the loop goes on from it: operator arguments are otherwise
\* evaluated on demand, one inside the other, as deep as the loop is long.
RECURSIVE Iterate(_, _, _, _)
Iterate(Step(_, _), st, lo, hi) ==
    IF st = st /\ lo > hi THEN st
    ELSE IF lo = hi THEN Step(st, lo)
    ELSE Iterate(Step, Iterate(Step, st, lo, (lo + hi) \div 2),
                 ((lo + hi) \div 2) + 1, hi)

\* the concatenation of a sequence of sequences
Concat(ss) == Iterate(LAMBDA acc, i : acc \o ss[i], <<>>, 1, Len(ss))

(***************************************************************************)
(* Characters and strings.                                                 *)
(***************************************************************************)
\* the characters str.strip(), str.split() and int() take for white space
Whitespace == {" ", "\t", "\n", "\r", "\f"}

DigitChars == <<"0", "1", "2", "3", "4", "5", "6", "7", "8", "9">>

UpperCase == <<"A", "B", "C", "D", "E", "F", "G", "H", "I", "J", "K", "L", "M",
               "N", "O", "P", "Q", "R", "S", "T", "U", "V", "W", "X", "Y", "Z">>

LowerCase == <<"a", "b", "c", "d", "e", "f", "g", "h", "i", "j", "k", "l", "m",
               "n", "o", "p", "q", "r", "s", "t", "u", "v", "w", "x", "y", "z">>

\* the characters of the model in code-point order
CodeOrder == <<"\t", "\n", "\f", "\r", " ", "\"", "'", "+", ",", "-", ".">>
                 \o DigitChars \o <<":">> \o UpperCase \o <<"\\", "_">> \o LowerCase

IsDigit(c) == c \in Range(DigitChars)

DigitVal(c) == (CHOOSE i \in DOMAIN DigitChars : DigitChars[i] = c) - 1

\* str.lower()
lower(s) ==
    [i \in DOMAIN s |->
        IF s[i] \in Range(UpperCase)
        THEN LowerCase[CHOOSE k \in DOMAIN UpperCase : UpperCase[k] = s[i]]
        ELSE s[i]]

\* the pieces a loop over the characters of a string cuts off: cur is the
\* piece being read, acc the pieces that are complete
Pieces(st) == IF st.cur = <<>> THEN st.acc ELSE Append(st.acc, st.cur)

\* str.split() with no argument: the maximal runs of non-whitespace
split(s) ==
    Pieces(Iterate(LAMBDA st, i :
                       IF s[i] \in Whitespace
                       THEN [cur |-> <<>>, acc |-> Pieces(st)]
                       ELSE [cur |-> Append(st.cur, s[i]), acc |-> st.acc],
                   [cur |-> <<>>, acc |-> <<>>], 1, Len(s)))

\* str.split(sep) for a one-character separator: the pieces between the
\* separators, empty ones included
SplitOn(s, sep) ==
    Bind(Iterate(LAMBDA st, i :
                     IF s[i] = sep
                     THEN [cur |-> <<>>, acc |-> Append(st.acc, st.cur)]
                     ELSE [cur |-> Append(st.cur, s[i]), acc |-> st.acc],
                 [cur |-> <<>>, acc |-> <<>>], 1, Len(s)),
         LAMBDA end : Append(end.acc, end.cur))

\* str.strip()
strip(s) ==
    Bind({i \in DOMAIN s : s[i] \notin Whitespace},
         LAMBDA keep : IF keep = {} THEN <<>> ELSE SubSeq(s, MinOf(keep), MaxOf(keep)))

\* str.startswith(prefix)
StartsWith(s, prefix) == Len(s) >= Len(prefix) /\ SubSeq(s, 1, Len(prefix)) = prefix

\* the lines of a text file opened in text mode, as "for line in f" yields
\* them: "\r\n" and "\r" are read as "\n", and a line ends after every "\n"
ReadLines(text) ==
    Pieces(Iterate(LAMBDA st, i :
                       IF text[i] = "\r" /\ i < Len(text) /\ text[i + 1] = "\n"
                       THEN st
                       ELSE IF text[i] \in {"\r", "\n"}
                       THEN [cur |-> <<>>, acc |-> Append(st.acc, Append(st.cur, "\n"))]
                       ELSE [cur |-> Append(st.cur, text[i]), acc |-> st.acc],
                   [cur |-> <<>>, acc |-> <<>>], 1, Len(text)))

\* a string as a sort key: Python orders strings by code point
StrKey(s) == [i \in DOMAIN s |-> CHOOSE k \in DOMAIN CodeOrder : CodeOrder[k] = s[i]]

\* str(n) for an integer
RECURSIVE NatToStr(_)
NatToStr(n) ==
    IF n < 10 THEN <<DigitChars[n + 1]>>
    ELSE Append(NatToStr(n \div 10), DigitChars[(n % 10) + 1])

\* repr(s) of a string: in single quotes, or in double quotes when it holds
\* a single quote and no double quote; control characters are escaped
Repr(s) ==
    Bind(IF "'" \in Range(s) /\ "\"" \notin Range(s) THEN "\"" ELSE "'",
         LAMBDA quote :
             <<quote>>
               \o Concat([i \in DOMAIN s |->
                            IF s[i] = "\\" THEN <<"\\", "\\">>
                            ELSE IF s[i] = quote THEN <<"\\", quote>>
                            ELSE IF s[i] = "\t" THEN <<"\\", "t">>
                            ELSE IF s[i] = "\n" THEN <<"\\", "n">>
                            ELSE IF s[i] = "\r" THEN <<"\\", "r">>
                            ELSE IF s[i] = "\f" THEN <<"\\", "x", "0", "c">>
                            ELSE <<s[i]>>])
               \o <<quote>>)

\* comparison of two sort keys (tuples of integers), as Python orders tuples
RECURSIVE KeyLess(_, _)
KeyLess(key1, key2) ==
    IF key2 = <<>> THEN FALSE
    ELSE IF key1 = <<>> THEN TRUE
    ELSE IF key1[1] # key2[1] THEN key1[1] < key2[1]
    ELSE KeyLess(Tail(key1), Tail(key2))

\* list.sort / sorted with the given keys (tuples of integers).  The sort is
\* stable: the position of element i in the output is one more than the
\* number of elements that go before it, namely those with a smaller key and
\* those with an equal key that stood before it
StableSort(items, keys) ==
    Bind(SubSeq(keys, 1, Len(keys)),
         LAMBDA ks :
             Bind([i \in DOMAIN ks |->
                      1 + Cardinality({j \in DOMAIN ks :
                                         \/ KeyLess(ks[j], ks[i])
                                         \/ j < i /\ ~KeyLess(ks[i], ks[j])})],
                  LAMBDA pos : [p \in DOMAIN items |->
                                   items[CHOOSE i \in DOMAIN pos : pos[i] = p]]))

\* the elements of a finite set of strings as a sorted list: sorted(d.keys())
RECURSIVE SetToSeq(_)
SetToSeq(S) ==
    IF S = {} THEN <<>>
    ELSE Bind(CHOOSE y \in S : TRUE, LAMBDA e : <<e>> \o SetToSeq(S \ {e}))

SortedKeys(S) ==
    Bind(SetToSeq(S), LAMBDA seq : StableSort(seq, [i \in DOMAIN seq |-> StrKey(seq[i])]))

(***************************************************************************)
(* Natural numbers of any size: the digits in base 2^15, least significant *)
(* first, without leading zero digits (zero is the empty sequence).  Every *)
(* intermediate product stays below 2^31.                                  *)
(***************************************************************************)
Radix == 2^15

Trim(u) == SubSeq(u, 1, MaxOf({0} \cup {i \in DOMAIN u : u[i] # 0}))

RECURSIVE NatToBig(_)
NatToBig(n) == IF n = 0 THEN <<>> ELSE <<n % Radix>> \o NatToBig(n \div Radix)

Digit(u, i) == IF i <= Len(u) THEN u[i] ELSE 0

\* the digits of a carry loop, with its last carry on top
WithCarry(end) == end.digits \o NatToBig(end.carry)

BigAdd(u, v) ==
    WithCarry(Iterate(LAMBDA st, i :
                  [carry  |-> (Digit(u, i) + Digit(v, i) + st.carry) \div Radix,
                   digits |-> Append(st.digits,
                                     (Digit(u, i) + Digit(v, i) + st.carry) % Radix)],
                  [carry |-> 0, digits |-> <<>>], 1, Max(Len(u), Len(v))))

\* u - v for u >= v
BigSub(u, v) ==
    Trim(Iterate(LAMBDA st, i :
             [carry  |-> IF u[i] - Digit(v, i) - st.carry < 0 THEN 1 ELSE 0,
              digits |-> Append(st.digits,
                                (u[i] - Digit(v, i) - st.carry + Radix) % Radix)],
             [carry |-> 0, digits |-> <<>>], 1, Len(u)).digits)

\* -1, 0 or 1 as u < v, u = v or u > v
BigCmp(u, v) ==
    IF Len(u) < Len(v) THEN -1
    ELSE IF Len(u) > Len(v) THEN 1
    ELSE IF u = v THEN 0
    ELSE Bind(MaxOf({i \in DOMAIN u : u[i] # v[i]}),
              LAMBDA top : IF u[top] < v[top] THEN -1 ELSE 1)

\* u * m for 0 <= m < 2^16; the last carry may have two digits
BigMulSmall(u, m) ==
    IF m = 0 THEN <<>>
    ELSE WithCarry(Iterate(LAMBDA st, i :
                       [carry  |-> (u[i] * m + st.carry) \div Radix,
                        digits |-> Append(st.digits, (u[i] * m + st.carry) % Radix)],
                       [carry |-> 0, digits |-> <<>>], 1, Len(u)))

\* u * Radix^n
ShiftDigits(u, n) == IF u = <<>> \/ n = 0 THEN u ELSE [i \in 1..n |-> 0] \o u

BigMul(u, v) ==
    Iterate(LAMBDA acc, i : BigAdd(acc, ShiftDigits(BigMulSmall(u, v[i]), i - 1)),
            <<>>, 1, Len(v))

\* quotient and remainder of u by m, 0 < m < 2^16: the digits of u are taken
\* from the top
BigDivSmall(u, m) ==
    Bind(Iterate(LAMBDA st, i :
                     [q |-> <<(st.r * Radix + u[Len(u) + 1 - i]) \div m>> \o st.q,
                      r |-> (st.r * Radix + u[Len(u) + 1 - i]) % m],
                 [q |-> <<>>, r |-> 0], 1, Len(u)),
         LAMBDA end : [q |-> Trim(end.q), r |-> end.r])

\* u * 2^n
BigShl(u, n) == ShiftDigits(BigMulSmall(u, 2^(n % 15)), n \div 15)

\* floor(u / 2^n)
BigShr(u, n) ==
    IF n \div 15 >= Len(u) THEN <<>>
    ELSE BigDivSmall(SubSeq(u, (n \div 15) + 1, Len(u)), 2^(n % 15)).q

\* the number of binary digits of u
BitLen(u) ==
    IF u = <<>> THEN 0
    ELSE 15 * (Len(u) - 1) + Cardinality({j \in 0..14 : 2^j <= u[Len(u)]})

\* one digit of a quotient: the largest digit d <= guess with v * d <= u
RECURSIVE QuotDigit(_, _, _)
QuotDigit(u, v, guess) ==
    IF BigCmp(BigMulSmall(v, guess), u) > 0 THEN QuotDigit(u, v, guess - 1)
    ELSE guess

\* floor(u / v) for v # 0, and whether the division is exact, by long
\* division.  Both numbers are first multiplied by the power of two that
\* brings the top digit of v to Radix / 2 or more (un, vn).  Every digit of
\* un is then brought down to the remainder in turn; the quotient digit of
\* the remainder, guessed from its top digits and those of vn and then
\* corrected, is put before the digits q, and its product with vn is taken
\* off the remainder
BigDiv(u, v) ==
    Bind([un |-> BigShl(u, 15 * Len(v) - BitLen(v)),
          vn |-> BigShl(v, 15 * Len(v) - BitLen(v))],
         LAMBDA n :
             Bind(Iterate(LAMBDA st, i :
                      Bind(Trim(<<n.un[Len(n.un) + 1 - i]>> \o st.r),
                           LAMBDA rem :
                               Bind(QuotDigit(rem, n.vn,
                                        Min(Radix - 1,
                                            (Digit(rem, Len(n.vn) + 1) * Radix
                                               + Digit(rem, Len(n.vn)))
                                                \div n.vn[Len(n.vn)])),
                                    LAMBDA d : [q |-> <<d>> \o st.q,
                                                r |-> BigSub(rem, BigMulSmall(n.vn, d))])),
                      [q |-> <<>>, r |-> <<>>], 1, Len(n.un)),
                  LAMBDA end : [q |-> Trim(end.q), exact |-> end.r = <<>>]))

RECURSIVE BigPow10(_)
BigPow10(n) ==
    IF n = 0 THEN <<1>>
    ELSE IF n % 2 = 1 THEN BigMulSmall(BigPow10(n - 1), 10)
    ELSE Bind(BigPow10(n \div 2), LAMBDA half : BigMul(half, half))

\* the decimal digits of u, most significant first; "0" for zero.  A number
\* of n bits has at most 31 * n / 100 + 1 decimal digits.
BigToDec(u) ==
    Bind(Iterate(LAMBDA st, i :
                     Bind(BigDivSmall(st.u, 10),
                          LAMBDA d : [u |-> d.q, s |-> <<DigitChars[d.r + 1]>> \o st.s]),
                 [u |-> u, s |-> <<>>], 1, ((BitLen(u) * 31) \div 100) + 1).s,
         LAMBDA s : SubSeq(s, MinOf({Len(s)} \cup {i \in DOMAIN s : s[i] # "0"}),
                           Len(s)))

\* the number written by a string of decimal digits
DecToBig(s) ==
    Iterate(LAMBDA acc, i : BigAdd(BigMulSmall(acc, 10), NatToBig(DigitVal(s[i]))),
            <<>>, 1, Len(s))

\* floor(u / 2^drop) rounded to the nearest integer, a tie going to the even
\* one; inexact says that the true value lies a little above u
RoundShift(u, drop, inexact) ==
    Bind(BigShr(u, drop),
         LAMBDA q :
             Bind(BigCmp(BigShl(BigSub(u, BigShl(q, drop)), 1), BigShl(<<1>>, drop)),
                  LAMBDA cmp :
                      IF cmp > 0 \/ (cmp = 0 /\ (inexact \/ Digit(q, 1) % 2 = 1))
                      THEN BigAdd(q, <<1>>)
                      ELSE q))

(***************************************************************************)
(* Python integers: sign and magnitude (zero is not negative).             *)
(***************************************************************************)
IntVal(neg, mag) == [neg |-> neg /\ mag # <<>>, mag |-> mag]

\* the digits of a magnitude as a sort key: the longer number is the larger,
\* then the top digits decide; negated for a negative number
MagKey(neg, mag) ==
    [i \in 1..(Len(mag) + 1) |->
        (IF neg THEN -1 ELSE 1) * (IF i = 1 THEN Len(mag) ELSE mag[Len(mag) + 2 - i])]

\* an integer as a sort key: tuples of integers ordered like the values
IntKey(n) == MagKey(n.neg, n.mag)

(***************************************************************************)
(* Python floats: IEEE 754 binary64 values.  A finite value is             *)
(* (-1)^s * m * 2^e with m < 2^53 and e >= -1074, kept in the one form     *)
(* with m >= 2^52 or e = -1074 (zero has m empty and e = 0).  Every        *)
(* operation rounds the exact result to the nearest value, ties to even.   *)
(***************************************************************************)
\* the float (-1)^s * m * 2^e of a mantissa m in the form described
DFin(s, m, e) == [k |-> "fin", s |-> s, m |-> m, e |-> e]

DZero(s) == [k |-> "fin", s |-> s, m |-> <<>>, e |-> 0]

DInf(s) == [k |-> "inf", s |-> s, m |-> <<>>, e |-> 0]

DNan == [k |-> "nan", s |-> 0, m |-> <<>>, e |-> 0]

\* the float (-1)^s * m * 2^e of a rounded mantissa m, which has 54 bits
\* when the rounding went up to 2^53; a value of 2^1024 or more is infinite
DPack(s, m, e) ==
    IF m = <<>> THEN DZero(s)
    ELSE IF e + BitLen(m) > 1024 THEN DInf(s)
    ELSE IF BitLen(m) > 53 THEN [k |-> "fin", s |-> s, m |-> BigShr(m, 1), e |-> e + 1]
    ELSE [k |-> "fin", s |-> s, m |-> m, e |-> e]

\* the float nearest to (-1)^s * u * 2^e, or to a value a little above
\* u * 2^e in magnitude when inexact (u then has more than 54 bits): the
\* lowest drop bits of u are rounded away (none when drop <= 0)
DRound(s, u, e, inexact) ==
    Bind(Max(BitLen(u) - 53, 0 - 1074 - e),
         LAMBDA drop :
             DPack(s, IF drop <= 0 THEN BigShl(u, 0 - drop)
                      ELSE RoundShift(u, drop, inexact),
                   e + drop))

\* float(n) of an integer given by sign and magnitude
DFromBig(n) == DRound(IF n.neg THEN 1 ELSE 0, n.mag, 0, FALSE)

\* float(n) of a small integer
DFromInt(n) == DFromBig(IntVal(n < 0, NatToBig(IF n < 0 THEN 0 - n ELSE n)))

\* x * y of two finite floats
DMul(x, y) ==
    IF x.m = <<>> \/ y.m = <<>> THEN DZero((x.s + y.s) % 2)
    ELSE DRound((x.s + y.s) % 2, BigMul(x.m, y.m), x.e + y.e, FALSE)

\* x / y of a finite float x and a float y other than zero and nan: the
\* quotient of the mantissas, that of x shifted left to give 57 bits or more
DDiv(x, y) ==
    IF y.k = "inf" \/ x.m = <<>> THEN DZero((x.s + y.s) % 2)
    ELSE Bind(Max(0, 58 + BitLen(y.m) - BitLen(x.m)),
              LAMBDA shift :
                  Bind(BigDiv(BigShl(x.m, shift), y.m),
                       LAMBDA d : DRound((x.s + y.s) % 2, d.q, x.e - y.e - shift,
                                         ~d.exact)))

\* x + y of two finite floats: the mantissas are brought to the smaller
\* exponent e and added or subtracted exactly
DAdd(x, y) ==
    IF x.m = <<>> /\ y.m = <<>> THEN DZero(IF x.s = 1 /\ y.s = 1 THEN 1 ELSE 0)
    ELSE IF x.m = <<>> THEN y
    ELSE IF y.m = <<>> THEN x
    ELSE Bind([e |-> Min(x.e, y.e),
               x |-> BigShl(x.m, x.e - Min(x.e, y.e)),
               y |-> BigShl(y.m, y.e - Min(x.e, y.e))],
              LAMBDA at :
                  IF x.s = y.s THEN DRound(x.s, BigAdd(at.x, at.y), at.e, FALSE)
                  ELSE Bind(BigCmp(at.x, at.y),
                            LAMBDA cmp :
                                IF cmp = 0 THEN DZero(0)
                                ELSE IF cmp > 0
                                THEN DRound(x.s, BigSub(at.x, at.y), at.e, FALSE)
                                ELSE DRound(y.s, BigSub(at.y, at.x), at.e, FALSE)))

DSub(x, y) == DAdd(x, [y EXCEPT !.s = 1 - y.s])

\* a float other than nan as a sort key: tuples of integers ordered like the
\* values
DKey(x) ==
    IF x.k = "inf" THEN <<IF x.s = 1 THEN -2 ELSE 2>>
    ELSE IF x.m = <<>> THEN <<0>>
    ELSE <<IF x.s = 1 THEN -1 ELSE 1,
           (IF x.s = 1 THEN -1 ELSE 1) * (x.e + BitLen(x.m) + 1075)>>
           \o Tail(MagKey(x.s = 1, x.m))

\* x * y + z of three finite floats, rounded once: the fused multiply-add
\* of the processor
DFma(x, y, z) ==
    IF x.m = <<>> \/ y.m = <<>> THEN DAdd(DZero((x.s + y.s) % 2), z)
    ELSE IF z.m = <<>>
    THEN DRound((x.s + y.s) % 2, BigMul(x.m, y.m), x.e + y.e, FALSE)
    ELSE Bind([s |-> (x.s + y.s) % 2,
               e |-> Min(x.e + y.e, z.e),
               p |-> BigShl(BigMul(x.m, y.m), x.e + y.e - Min(x.e + y.e, z.e)),
               z |-> BigShl(z.m, z.e - Min(x.e + y.e, z.e))],
              LAMBDA at :
                  IF at.s = z.s THEN DRound(z.s, BigAdd(at.p, at.z), at.e, FALSE)
                  ELSE Bind(BigCmp(at.p, at.z),
                            LAMBDA cmp :
                                IF cmp = 0 THEN DZero(0)
                                ELSE IF cmp > 0
                                THEN DRound(at.s, BigSub(at.p, at.z), at.e, FALSE)
                                ELSE DRound(z.s, BigSub(at.z, at.p), at.e, FALSE)))

(***************************************************************************)
(* math.log(x) is the log of the C library.  Its value is the nearest      *)
(* float for most x and a neighbour of it for the others, so it is         *)
(* computed here step by step as the library computes it (glibc 2.36 on    *)
(* x86-64, the variant for processors with fused multiply-add), with the   *)
(* library's own constants: ln 2 in two parts, the coefficients of its two *)
(* polynomials and its table of 128 pairs (1/c, ln c).                     *)
(***************************************************************************)
Ln2hi == DFin(0, <<14336, 32244, 14603, 177>>, -53)

Ln2lo == DFin(0, <<26416, 10126, 19806, 247>>, -97)

\* log1p(r) - r is about r^2 * (A[1] + r * A[2] + ...) for |r| < 1/256
LogPoly ==
    << DFin(1, <<1, 0, 0, 128>>, -53),
       DFin(0, <<12379, 10914, 21845, 170>>, -54),
       DFin(1, <<17808, 32726, 32767, 255>>, -55),
       DFin(0, <<273, 18914, 26316, 204>>, -55),
       DFin(1, <<18591, 18957, 21975, 170>>, -55) >>

\* log1p(r) is about r + r^2 * B[1] + r^3 * (B[2] + r * B[3] + ...) near 1
LogPolyNearOne ==
    << DFin(1, <<0, 0, 0, 128>>, -53),
       DFin(0, <<21879, 10922, 21845, 170>>, -54),
       DFin(1, <<32203, 32767, 32767, 255>>, -55),
       DFin(0, <<23820, 13099, 26214, 204>>, -55),
       DFin(1, <<17831, 10958, 21845, 170>>, -55),
       DFin(0, <<24112, 18057, 9362, 146>>, -55),
       DFin(1, <<15717, 18564, 32766, 255>>, -56),
       DFin(0, <<22218, 20565, 17936, 227>>, -56),
       DFin(1, <<26879, 1888, 26541, 204>>, -56),
       DFin(0, <<20613, 28511, 1547, 188>>, -56),
       DFin(1, <<17869, 27554, 18509, 170>>, -56) >>

\* the pairs <<invc, logc>>: invc is near 1/c and logc near ln c for a c
\* near the middle of the i-th of 128 parts of [0.6875, 1.375)
LogTable ==
    << <<DFin(0, <<24223, 1985, 21443, 185>>, -52), DFin(1, <<4096, 29645, 12797, 190>>, -54)>>,
       <<DFin(0, <<26911, 21593, 19937, 184>>, -52), DFin(1, <<0, 1050, 16315, 187>>, -54)>>,
       <<DFin(0, <<13728, 4597, 18816, 183>>, -52), DFin(1, <<24576, 9891, 20364, 184>>, -54)>>,
       <<DFin(0, <<3197, 15911, 18072, 182>>, -52), DFin(1, <<30720, 28752, 24940, 181>>, -54)>>,
       <<DFin(0, <<13521, 6027, 17700, 181>>, -52), DFin(1, <<30720, 8448, 30038, 178>>, -54)>>,
       <<DFin(0, <<3258, 26206, 17692, 180>>, -52), DFin(1, <<0, 27696, 2881, 176>>, -54)>>,
       <<DFin(0, <<16931, 12356, 18044, 179>>, -52), DFin(1, <<4096, 3361, 9002, 173>>, -54)>>,
       <<DFin(0, <<7897, 13130, 18750, 178>>, -52), DFin(1, <<20480, 11270, 15629, 170>>, -54)>>,
       <<DFin(0, <<9412, 21790, 19802, 177>>, -52), DFin(1, <<16384, 1750, 22751, 167>>, -54)>>,
       <<DFin(0, <<23572, 22331, 21197, 176>>, -52), DFin(1, <<20480, 31568, 30367, 164>>, -54)>>,
       <<DFin(0, <<23628, 9612, 22929, 175>>, -52), DFin(1, <<10240, 29459, 5704, 162>>, -54)>>,
       <<DFin(0, <<11343, 27426, 24990, 174>>, -52), DFin(1, <<14336, 29537, 14288, 159>>, -54)>>,
       <<DFin(0, <<4318, 5815, 27379, 173>>, -52), DFin(1, <<28672, 2334, 23353, 156>>, -54)>>,
       <<DFin(0, <<6776, 26034, 30087, 172>>, -52), DFin(1, <<8192, 12155, 120, 154>>, -54)>>,
       <<DFin(0, <<22151, 9356, 344, 172>>, -52), DFin(1, <<0, 24205, 10123, 151>>, -54)>>,
       <<DFin(0, <<27603, 7630, 3679, 171>>, -52), DFin(1, <<24576, 28769, 20588, 148>>, -54)>>,
       <<DFin(0, <<32659, 17742, 7319, 170>>, -52), DFin(1, <<2048, 6581, 31510, 145>>, -54)>>,
       <<DFin(0, <<17795, 1036, 11261, 169>>, -52), DFin(1, <<4096, 21071, 10116, 143>>, -54)>>,
       <<DFin(0, <<15839, 14181, 15499, 168>>, -52), DFin(1, <<30720, 22161, 21940, 140>>, -54)>>,
       <<DFin(0, <<24279, 3689, 20029, 167>>, -52), DFin(1, <<30720, 13683, 1438, 138>>, -54)>>,
       <<DFin(0, <<10304, 8124, 24847, 166>>, -52), DFin(1, <<6144, 10719, 14146, 135>>, -54)>>,
       <<DFin(0, <<9160, 241, 29947, 165>>, -52), DFin(1, <<4096, 12726, 27284, 132>>, -54)>>,
       <<DFin(0, <<9610, 1984, 2559, 165>>, -52), DFin(1, <<14336, 9415, 8089, 130>>, -54)>>,
       <<DFin(0, <<1076, 18857, 8212, 164>>, -52), DFin(1, <<28672, 2829, 11401, 255>>, -55)>>,
       <<DFin(0, <<11531, 13874, 14136, 163>>, -52), DFin(1, <<12288, 27183, 7465, 250>>, -55)>>,
       <<DFin(0, <<6228, 9842, 20327, 162>>, -52), DFin(1, <<12288, 31264, 4368, 245>>, -55)>>,
       <<DFin(0, <<1114, 2409, 26781, 161>>, -52), DFin(1, <<12288, 2515, 2101, 240>>, -55)>>,
       <<DFin(0, <<30971, 555, 725, 161>>, -52), DFin(1, <<28672, 21231, 648, 235>>, -55)>>,
       <<DFin(0, <<29873, 13437, 7691, 160>>, -52), DFin(1, <<4096, 2347, 4, 230>>, -55)>>,
       <<DFin(0, <<32399, 15023, 14909, 159>>, -52), DFin(1, <<4096, 11538, 165, 225>>, -55)>>,
       <<DFin(0, <<19689, 16406, 22374, 158>>, -52), DFin(1, <<4096, 6914, 1118, 220>>, -55)>>,
       <<DFin(0, <<16683, 33, 30083, 157>>, -52), DFin(1, <<20480, 6567, 2855, 215>>, -55)>>,
       <<DFin(0, <<23224, 22251, 5264, 157>>, -52), DFin(1, <<4096, 23589, 5376, 210>>, -55)>>,
       <<DFin(0, <<20482, 6975, 13451, 156>>, -52), DFin(1, <<28672, 20539, 8669, 205>>, -55)>>,
       <<DFin(0, <<31260, 2824, 21871, 155>>, -52), DFin(1, <<12288, 21136, 12725, 200>>, -55)>>,
       <<DFin(0, <<14050, 4954, 30521, 154>>, -52), DFin(1, <<16384, 19595, 17538, 195>>, -55)>>,
       <<DFin(0, <<21568, 12443, 6630, 154>>, -52), DFin(1, <<12288, 26664, 23102, 190>>, -55)>>,
       <<DFin(0, <<19236, 7679, 15731, 153>>, -52), DFin(1, <<28672, 30916, 29408, 185>>, -55)>>,
       <<DFin(0, <<3401, 27458, 25053, 152>>, -52), DFin(1, <<24576, 13934, 3690, 181>>, -55)>>,
       <<DFin(0, <<14736, 28284, 1824, 152>>, -52), DFin(1, <<8192, 10607, 11461, 176>>, -55)>>,
       <<DFin(0, <<30785, 30507, 11578, 151>>, -52), DFin(1, <<12288, 27720, 19957, 171>>, -55)>>,
       <<DFin(0, <<10705, 1075, 21544, 150>>, -52), DFin(1, <<12288, 8068, 29166, 166>>, -55)>>,
       <<DFin(0, <<32042, 20847, 31718, 149>>, -52), DFin(1, <<0, 9124, 6321, 162>>, -55)>>,
       <<DFin(0, <<7083, 29720, 9329, 149>>, -52), DFin(1, <<0, 30982, 16938, 157>>, -55)>>,
       <<DFin(0, <<13616, 16425, 19913, 148>>, -52), DFin(1, <<0, 22162, 28261, 152>>, -55)>>,
       <<DFin(0, <<8693, 11951, 30697, 147>>, -52), DFin(1, <<16384, 8520, 7506, 148>>, -55)>>,
       <<DFin(0, <<15295, 13882, 8910, 147>>, -52), DFin(1, <<8192, 28915, 20199, 143>>, -55)>>,
       <<DFin(0, <<30141, 1823, 20086, 146>>, -52), DFin(1, <<8192, 19033, 800, 139>>, -55)>>,
       <<DFin(0, <<2107, 21906, 31454, 145>>, -52), DFin(1, <<8192, 12270, 14845, 134>>, -55)>>,
       <<DFin(0, <<16566, 22354, 10244, 145>>, -52), DFin(1, <<8192, 5117, 29553, 129>>, -55)>>,
       <<DFin(0, <<16690, 11672, 21990, 144>>, -52), DFin(1, <<0, 30871, 24310, 250>>, -56)>>,
       <<DFin(0, <<31899, 15269, 1152, 144>>, -52), DFin(1, <<16384, 11392, 23586, 241>>, -56)>>,
       <<DFin(0, <<18443, 4762, 13265, 143>>, -52), DFin(1, <<16384, 32242, 24160, 232>>, -56)>>,
       <<DFin(0, <<25961, 9502, 25557, 142>>, -52), DFin(1, <<8192, 7601, 26013, 223>>, -56)>>,
       <<DFin(0, <<32380, 8878, 5260, 142>>, -52), DFin(1, <<24576, 16478, 29156, 214>>, -56)>>,
       <<DFin(0, <<9961, 27030, 17905, 141>>, -52), DFin(1, <<0, 20049, 783, 206>>, -56)>>,
       <<DFin(0, <<6838, 6232, 30724, 140>>, -52), DFin(1, <<16384, 26341, 6426, 197>>, -56)>>,
       <<DFin(0, <<28861, 30572, 10945, 140>>, -52), DFin(1, <<0, 26456, 13318, 188>>, -56)>>,
       <<DFin(0, <<15542, 19423, 24104, 139>>, -52), DFin(1, <<0, 2672, 21445, 179>>, -56)>>,
       <<DFin(0, <<12762, 27288, 4660, 139>>, -52), DFin(1, <<0, 23311, 30777, 170>>, -56)>>,
       <<DFin(0, <<24541, 8270, 18150, 138>>, -52), DFin(1, <<24576, 15683, 8563, 162>>, -56)>>,
       <<DFin(0, <<21068, 18533, 31802, 137>>, -52), DFin(1, <<8192, 6869, 20325, 153>>, -56)>>,
       <<DFin(0, <<31194, 25633, 12845, 137>>, -52), DFin(1, <<24576, 29066, 487, 145>>, -56)>>,
       <<DFin(0, <<13617, 20953, 26816, 136>>, -52), DFin(1, <<8192, 12484, 14618, 136>>, -56)>>,
       <<DFin(0, <<13487, 13576, 8175, 136>>, -52), DFin(1, <<0, 21924, 27057, 255>>, -57)>>,
       <<DFin(0, <<27571, 7836, 22456, 135>>, -52), DFin(1, <<16384, 5358, 27189, 238>>, -57)>>,
       <<DFin(0, <<8142, 14933, 4121, 135>>, -52), DFin(1, <<0, 18698, 29619, 221>>, -57)>>,
       <<DFin(0, <<9505, 18009, 18705, 134>>, -52), DFin(1, <<16384, 37, 1573, 205>>, -57)>>,
       <<DFin(0, <<6170, 31173, 669, 134>>, -52), DFin(1, <<16384, 26117, 8544, 188>>, -57)>>,
       <<DFin(0, <<14033, 1932, 15550, 133>>, -52), DFin(1, <<0, 20397, 17785, 171>>, -57)>>,
       <<DFin(0, <<4921, 12608, 30574, 132>>, -52), DFin(1, <<0, 4811, 29225, 154>>, -57)>>,
       <<DFin(0, <<26591, 24229, 12974, 132>>, -52), DFin(1, <<16384, 18474, 10125, 138>>, -57)>>,
       <<DFin(0, <<10491, 24220, 28284, 131>>, -52), DFin(1, <<0, 1495, 19202, 243>>, -58)>>,
       <<DFin(0, <<3865, 6251, 10966, 131>>, -52), DFin(1, <<0, 9381, 22469, 210>>, -58)>>,
       <<DFin(0, <<31020, 19417, 26554, 130>>, -52), DFin(1, <<0, 7939, 30091, 177>>, -58)>>,
       <<DFin(0, <<11408, 7074, 9511, 130>>, -52), DFin(1, <<0, 6484, 9198, 145>>, -58)>>,
       <<DFin(0, <<11689, 3553, 25371, 129>>, -52), DFin(1, <<0, 16882, 17900, 225>>, -59)>>,
       <<DFin(0, <<12969, 9970, 8596, 129>>, -52), DFin(1, <<0, 15188, 25813, 160>>, -59)>>,
       <<DFin(0, <<29512, 20436, 24720, 128>>, -52), DFin(1, <<0, 1496, 18447, 192>>, -60)>>,
       <<DFin(0, <<12693, 3113, 8208, 128>>, -52), DFin(1, <<0, 29256, 4133, 128>>, -61)>>,
       <<DFin(0, <<31258, 28237, 127, 255>>, -53), DFin(0, <<0, 2336, 16334, 255>>, -61)>>,
       <<DFin(0, <<27252, 1219, 1139, 253>>, -53), DFin(0, <<0, 27258, 28932, 190>>, -59)>>,
       <<DFin(0, <<6446, 24835, 3138, 251>>, -53), DFin(0, <<0, 2437, 14991, 158>>, -58)>>,
       <<DFin(0, <<11725, 31197, 6104, 249>>, -53), DFin(0, <<0, 10514, 32516, 220>>, -58)>>,
       <<DFin(0, <<5095, 1826, 10016, 247>>, -53), DFin(0, <<0, 7202, 17251, 141>>, -57)>>,
       <<DFin(0, <<12715, 29079, 14849, 245>>, -53), DFin(0, <<16384, 8195, 10607, 172>>, -57)>>,
       <<DFin(0, <<3227, 17722, 20586, 243>>, -53), DFin(0, <<0, 433, 29197, 202>>, -57)>>,
       <<DFin(0, <<6581, 1557, 27206, 241>>, -53), DFin(0, <<0, 24239, 7595, 233>>, -57)>>,
       <<DFin(0, <<6742, 4801, 1920, 240>>, -53), DFin(0, <<16384, 19249, 22115, 131>>, -56)>>,
       <<DFin(0, <<15256, 19183, 10247, 238>>, -53), DFin(0, <<8192, 17946, 20439, 146>>, -56)>>,
       <<DFin(0, <<4355, 5881, 19400, 236>>, -53), DFin(0, <<0, 5744, 15222, 161>>, -56)>>,
       <<DFin(0, <<23758, 19958, 29361, 234>>, -53), DFin(0, <<16384, 3759, 6502, 176>>, -56)>>,
       <<DFin(0, <<24221, 21693, 7346, 233>>, -53), DFin(0, <<0, 27348, 27096, 190>>, -56)>>,
       <<DFin(0, <<11469, 31958, 18872, 231>>, -53), DFin(0, <<24576, 7224, 11533, 205>>, -56)>>,
       <<DFin(0, <<30978, 17742, 31158, 229>>, -53), DFin(0, <<24576, 30234, 25374, 219>>, -56)>>,
       <<DFin(0, <<2157, 23150, 11417, 228>>, -53), DFin(0, <<8192, 26062, 3148, 234>>, -56)>>,
       <<DFin(0, <<22532, 31418, 25170, 226>>, -53), DFin(0, <<24576, 25532, 10437, 248>>, -56)>>,
       <<DFin(0, <<8076, 26487, 6868, 225>>, -53), DFin(0, <<16384, 22306, 7252, 131>>, -55)>>,
       <<DFin(0, <<26431, 24025, 22031, 223>>, -53), DFin(0, <<12288, 1317, 7702, 138>>, -55)>>,
       <<DFin(0, <<5825, 27575, 5109, 222>>, -53), DFin(0, <<12288, 7060, 6587, 145>>, -55)>>,
       <<DFin(0, <<18984, 6412, 21624, 220>>, -53), DFin(0, <<20480, 19850, 3934, 152>>, -55)>>,
       <<DFin(0, <<15916, 3038, 6027, 219>>, -53), DFin(0, <<4096, 30822, 32524, 158>>, -55)>>,
       <<DFin(0, <<2187, 20371, 23841, 217>>, -53), DFin(0, <<0, 22261, 26841, 165>>, -55)>>,
       <<DFin(0, <<12362, 16954, 9516, 216>>, -53), DFin(0, <<28672, 20899, 19684, 172>>, -55)>>,
       <<DFin(0, <<28542, 3045, 28578, 214>>, -53), DFin(0, <<28672, 18481, 11060, 179>>, -55)>>,
       <<DFin(0, <<15778, 25280, 15476, 213>>, -53), DFin(0, <<4096, 22733, 995, 186>>, -55)>>,
       <<DFin(0, <<22695, 32678, 2968, 212>>, -53), DFin(0, <<28672, 27189, 22275, 192>>, -55)>>,
       <<DFin(0, <<29579, 24082, 23811, 210>>, -53), DFin(0, <<0, 10733, 9381, 199>>, -55)>>,
       <<DFin(0, <<19239, 8534, 12458, 209>>, -53), DFin(0, <<16384, 1520, 27864, 205>>, -55)>>,
       <<DFin(0, <<29393, 10023, 1664, 208>>, -53), DFin(0, <<0, 14424, 12212, 212>>, -55)>>,
       <<DFin(0, <<15387, 18870, 24188, 206>>, -53), DFin(0, <<20480, 14339, 27973, 218>>, -55)>>,
       <<DFin(0, <<12688, 2959, 14484, 205>>, -53), DFin(0, <<16384, 6521, 9631, 225>>, -55)>>,
       <<DFin(0, <<20015, 25903, 5307, 204>>, -53), DFin(0, <<24576, 10896, 22743, 231>>, -55)>>,
       <<DFin(0, <<19317, 23880, 29419, 202>>, -53), DFin(0, <<16384, 26765, 1780, 238>>, -55)>>,
       <<DFin(0, <<18488, 15310, 21274, 201>>, -53), DFin(0, <<24576, 29087, 12294, 244>>, -55)>>,
       <<DFin(0, <<21222, 24270, 13628, 200>>, -53), DFin(0, <<4096, 47, 21543, 250>>, -55)>>,
       <<DFin(0, <<22429, 7679, 6474, 199>>, -53), DFin(0, <<14336, 9279, 14768, 128>>, -54)>>,
       <<DFin(0, <<124, 16280, 32570, 197>>, -53), DFin(0, <<20480, 7463, 18144, 131>>, -54)>>,
       <<DFin(0, <<17166, 13693, 26371, 196>>, -53), DFin(0, <<28672, 15628, 20910, 134>>, -54)>>,
       <<DFin(0, <<6139, 21574, 20638, 195>>, -53), DFin(0, <<20480, 26263, 23068, 137>>, -54)>>,
       <<DFin(0, <<6664, 22887, 15362, 194>>, -53), DFin(0, <<18432, 20038, 24629, 140>>, -54)>>,
       <<DFin(0, <<15957, 20682, 10535, 193>>, -53), DFin(0, <<0, 16793, 25599, 143>>, -54)>>,
       <<DFin(0, <<608, 11240, 6150, 192>>, -53), DFin(0, <<26624, 11974, 25983, 146>>, -54)>>,
       <<DFin(0, <<9001, 18369, 2197, 191>>, -53), DFin(0, <<10240, 4649, 25792, 149>>, -54)>>,
       <<DFin(0, <<13741, 28601, 31437, 189>>, -53), DFin(0, <<24576, 8326, 25032, 152>>, -54)>>,
       <<DFin(0, <<9666, 20270, 28329, 188>>, -53), DFin(0, <<6144, 23512, 23705, 155>>, -54)>>,
       <<DFin(0, <<1623, 25646, 25631, 187>>, -53), DFin(0, <<12288, 30558, 21823, 158>>, -54)>>,
       <<DFin(0, <<4876, 14252, 23339, 186>>, -53), DFin(0, <<24576, 18015, 19387, 161>>, -54)>> >>

\* log(x) for 0.9375 <= x < 1.064697265625, x # 1: with r = x - 1, the
\* polynomial in r; r + r^2 * B[1] is taken exactly, as hi + lo, by means
\* of the upper half rhi of the bits of r
LogNearOne(x) ==
    Bind(DSub(x, DFromInt(1)),
         LAMBDA r :
             Bind([r2  |-> DMul(r, r),
                   rhi |-> DFma(DFin(1, <<0, 0, 0, 128>>, 0 - 25), r,
                                DFma(r, DFin(0, <<0, 0, 0, 128>>, 0 - 25), r))],
                  LAMBDA a :
                      Bind([r3 |-> DMul(r, a.r2),
                            q1 |-> DFma(a.r2, LogPolyNearOne[4],
                                        DFma(r, LogPolyNearOne[3], LogPolyNearOne[2])),
                            q2 |-> DFma(a.r2, LogPolyNearOne[7],
                                        DFma(r, LogPolyNearOne[6], LogPolyNearOne[5])),
                            q3 |-> DFma(a.r2, LogPolyNearOne[10],
                                        DFma(r, LogPolyNearOne[9], LogPolyNearOne[8])),
                            hi |-> DFma(DMul(a.rhi, a.rhi), LogPolyNearOne[1], r)],
                           LAMBDA c :
                               DAdd(c.hi,
                                    DFma(DFma(DFma(DFma(c.r3, LogPolyNearOne[11], c.q3),
                                                   c.r3, c.q2),
                                              c.r3, c.q1),
                                         c.r3,
                                         DFma(DMul(LogPolyNearOne[1], DSub(r, a.rhi)),
                                              DAdd(r, a.rhi),
                                              DFma(DMul(a.rhi, a.rhi), LogPolyNearOne[1],
                                                   DSub(r, c.hi))))))))

\* log(x) for the other positive x = m * 2^e with a mantissa m of 53 bits:
\* x = 2^k * z with 0.6875 <= z < 1.375, where the first 7 bits t after the
\* top bit of m say whether z is below 1 and which part i of the table z
\* lies in; then ln x = k * ln 2 + ln c + log1p(r) with r = z / c - 1
LogByTable(m, e) ==
    Bind(Digit(BigShr(m, 45), 1) - 128,
         LAMBDA t :
             Bind([kd   |-> DFromInt(e + 52 + (IF t >= 48 THEN 1 ELSE 0)),
                   z    |-> DFin(0, m, 0 - 52 - (IF t >= 48 THEN 1 ELSE 0)),
                   invc |-> LogTable[((t + 80) % 128) + 1][1],
                   logc |-> LogTable[((t + 80) % 128) + 1][2]],
                  LAMBDA a :
                      Bind([r |-> DFma(a.z, a.invc, DFromInt(-1)),
                            w |-> DFma(a.kd, Ln2hi, a.logc)],
                           LAMBDA c :
                               Bind([hi |-> DAdd(c.r, c.w), r2 |-> DMul(c.r, c.r)],
                                    LAMBDA d :
                                        DAdd(DFma(DMul(c.r, d.r2),
                                                  DFma(DFma(c.r, LogPoly[5], LogPoly[4]),
                                                       d.r2,
                                                       DFma(c.r, LogPoly[3], LogPoly[2])),
                                                  DFma(d.r2, LogPoly[1],
                                                       DFma(a.kd, Ln2lo,
                                                            DAdd(DSub(c.w, d.hi), c.r)))),
                                             d.hi)))))

\* math.log(x) for a float x > 0
DLog(x) ==
    IF x.k = "inf" THEN x
    ELSE IF x = DFromInt(1) THEN DZero(0)
    ELSE IF /\ ~KeyLess(DKey(x), DKey(DFin(0, <<0, 0, 0, 240>>, 0 - 53)))
            /\ KeyLess(DKey(x), DKey(DFin(0, <<0, 0, 9216, 136>>, 0 - 52)))
    THEN LogNearOne(x)
    ELSE LogByTable(BigShl(x.m, 53 - BitLen(x.m)), x.e - (53 - BitLen(x.m)))

\* the decimal digits of a number with nd decimals, a point before the last
\* nd of them
WithPoint(digits, nd) ==
    Bind(IF Len(digits) < nd + 1
         THEN [i \in 1..(nd + 1 - Len(digits)) |-> "0"] \o digits
         ELSE digits,
         LAMBDA padded : SubSeq(padded, 1, Len(padded) - nd) \o <<".">>
                           \o SubSeq(padded, Len(padded) - nd + 1, Len(padded)))

\* the formatting with the digits after the nd-th cut off
DFormatTruncating(x, nd) ==
    IF x.k = "nan" THEN <<"n", "a", "n">>
    ELSE (IF x.s = 1 THEN <<"-">> ELSE <<>>)
           \o (IF x.k = "inf" THEN <<"i", "n", "f">>
               ELSE WithPoint(BigToDec(IF x.e >= 0
                                       THEN BigShl(BigMul(x.m, BigPow10(nd)), x.e)
                                       ELSE BigShr(BigMul(x.m, BigPow10(nd)), 0 - x.e)),
                              nd))

\* f"{x:.<nd>f}" for nd > 0: the exact value of the float rounded to nd
\* decimals, ties to even
DFormat(x, nd) ==
    IF x.k = "nan" THEN <<"n", "a", "n">>
    ELSE (IF x.s = 1 THEN <<"-">> ELSE <<>>)
           \o (IF x.k = "inf" THEN <<"i", "n", "f">>
               ELSE WithPoint(BigToDec(IF x.e >= 0
                                       THEN BigShl(BigMul(x.m, BigPow10(nd)), x.e)
                                       ELSE RoundShift(BigMul(x.m, BigPow10(nd)),
                                                       0 - x.e, FALSE)),
                              nd))

\* the float nearest to (-1)^s * u * 10^n
DOfDecimal(s, u, n) ==
    IF n >= 0 THEN DRound(s, BigMul(u, BigPow10(n)), 0, FALSE)
    ELSE Bind(BigPow10(0 - n),
              LAMBDA den :
                  Bind(Max(0, 58 + BitLen(den) - BitLen(u)),
                       LAMBDA shift :
                           Bind(BigDiv(BigShl(u, shift), den),
                                LAMBDA d : DRound(s, d.q, 0 - shift, ~d.exact))))
(***************************************************************************)
(* int(s) and float(s) of a string.                                        *)
(***************************************************************************)
\* digit groups joined by single underscores: "1_000"
Grouped(s) ==
    /\ s # <<>>
    /\ IsDigit(s[1])
    /\ IsDigit(s[Len(s)])
    /\ \A i \in DOMAIN s : IsDigit(s[i]) \/ (s[i] = "_" /\ IsDigit(s[i + 1]))

\* a text that starts with a sign
Signed(t) == t # <<>> /\ t[1] \in {"+", "-"}

Unsigned(t) == IF Signed(t) THEN Tail(t) ELSE t

\* the digits and underscores that a text starts with
DigitRun(u) ==
    SubSeq(u, 1, MinOf({Len(u) + 1}
                         \cup {i \in DOMAIN u : ~(IsDigit(u[i]) \/ u[i] = "_")}) - 1)

\* the most digits int() converts (sys.get_int_max_str_digits())
MaxStrDigits == 4300

\* the number of digits that int(s) refuses to convert, or 0: the count of
\* the digits of well-formed digit groups is taken before what follows them
\* is looked at
TooManyDigits(s) ==
    Bind(DigitRun(Unsigned(strip(s))),
         LAMBDA run :
             IF Len(run) > MaxStrDigits /\ Grouped(run)
                  /\ Len(SelectSeq(run, IsDigit)) > MaxStrDigits
             THEN Len(SelectSeq(run, IsDigit))
             ELSE 0)

\* int(s): white space around the number is dropped; then a sign and digit
\* groups of at most MaxStrDigits digits.  ok is FALSE when int raises
\* ValueError.
ParseInt(s) ==
    Bind(strip(s),
         LAMBDA t :
             IF Grouped(Unsigned(t)) /\ TooManyDigits(s) = 0
             THEN [ok |-> TRUE,
                   val |-> IntVal(Signed(t) /\ t[1] = "-",
                                  DecToBig(SelectSeq(Unsigned(t), IsDigit)))]
             ELSE [ok |-> FALSE, val |-> IntVal(FALSE, <<>>)])

\* the message of the ValueError of int(s): the digit limit, or at most 200
\* characters of repr(s)
IntError(s) ==
    IF TooManyDigits(s) > 0
    THEN <<"E", "x", "c", "e", "e", "d", "s", " ", "t", "h", "e", " ", "l", "i", "m",
           "i", "t", " ", "(">> \o NatToStr(MaxStrDigits)
           \o <<" ", "d", "i", "g", "i", "t", "s", ")", " ", "f", "o", "r", " ", "i",
                "n", "t", "e", "g", "e", "r", " ", "s", "t", "r", "i", "n", "g", " ",
                "c", "o", "n", "v", "e", "r", "s", "i", "o", "n", ":", " ", "v", "a",
                "l", "u", "e", " ", "h", "a", "s", " ">>
           \o NatToStr(TooManyDigits(s))
           \o <<" ", "d", "i", "g", "i", "t", "s", ";", " ", "u", "s", "e", " ", "s",
                "y", "s", ".", "s", "e", "t", "_", "i", "n", "t", "_", "m", "a", "x",
                "_", "s", "t", "r", "_", "d", "i", "g", "i", "t", "s", "(", ")", " ",
                "t", "o", " ", "i", "n", "c", "r", "e", "a", "s", "e", " ", "t", "h",
                "e", " ", "l", "i", "m", "i", "t">>
    ELSE Bind(Repr(s),
              LAMBDA r : <<"i", "n", "v", "a", "l", "i", "d", " ", "l", "i", "t", "e",
                           "r", "a", "l", " ", "f", "o", "r", " ", "i", "n", "t", "(",
                           ")", " ", "w", "i", "t", "h", " ", "b", "a", "s", "e", " ",
                           "1", "0", ":", " ">>
                           \o SubSeq(r, 1, Min(200, Len(r))))

\* s cut at the first c: what stands before it and after it
Cut(s, c) ==
    Bind({i \in DOMAIN s : s[i] = c},
         LAMBDA hits :
             IF hits = {} THEN [found |-> FALSE, head |-> s, tail |-> <<>>]
             ELSE [found |-> TRUE, head |-> SubSeq(s, 1, MinOf(hits) - 1),
                   tail |-> SubSeq(s, MinOf(hits) + 1, Len(s))])

AllDigits(s) == \A i \in DOMAIN s : IsDigit(s[i])

\* the value of the digits of an exponent: one of more than 9 digits after
\* its leading zeros counts as 1100000000 (MAX_ABS_EXP of float's parser)
ExponentOf(edig) ==
    Bind(SubSeq(edig, MinOf({Len(edig) + 1} \cup {i \in DOMAIN edig : edig[i] # "0"}),
                Len(edig)),
         LAMBDA enz : IF Len(enz) > 9 THEN 1100000000
                      ELSE Iterate(LAMBDA acc, i : 10 * acc + DigitVal(enz[i]),
                                   0, 1, Len(enz)))

\* the float of a mantissa cut at its point and of an exponent edig with
\* its sign, when they are made of digits: (-1)^sign * digits * 10^power
FloatOfParts(sign, mant, has_exp, eneg, edig) ==
    IF ~(/\ AllDigits(mant.head)
         /\ AllDigits(mant.tail)
         /\ mant.head \o mant.tail # <<>>
         /\ has_exp => (edig # <<>> /\ AllDigits(edig)))
    THEN [ok |-> FALSE, val |-> DNan]
    ELSE Bind([digits |-> DecToBig(mant.head \o mant.tail),
               len    |-> Len(mant.head \o mant.tail),
               power  |-> (IF eneg THEN 0 - ExponentOf(edig) ELSE ExponentOf(edig))
                            - Len(mant.tail)],
              LAMBDA n :
                  IF n.digits = <<>> THEN [ok |-> TRUE, val |-> DZero(sign)]
                  ELSE IF n.power > 400 THEN [ok |-> TRUE, val |-> DInf(sign)]
                  ELSE IF n.power < 0 - 400 - n.len THEN [ok |-> TRUE, val |-> DZero(sign)]
                  ELSE [ok |-> TRUE, val |-> DOfDecimal(sign, n.digits, n.power)])

\* float(s): white space around the number is dropped and underscores
\* between two digits are ignored; then a sign and "inf", "infinity" or
\* "nan" in any case, or digits with at most one point and an exponent.
\* ok is FALSE when float raises ValueError.
ParseFloat(s) ==
    Bind(strip(s),
         LAMBDA t :
             IF \E i \in DOMAIN t :
                   t[i] = "_" /\ ~(i > 1 /\ IsDigit(t[i - 1])
                                   /\ i < Len(t) /\ IsDigit(t[i + 1]))
             THEN [ok |-> FALSE, val |-> DNan]
             ELSE Bind([sign |-> IF Signed(t) /\ t[1] = "-" THEN 1 ELSE 0,
                        word |-> lower(Unsigned(SelectSeq(t, LAMBDA c : c # "_")))],
                       LAMBDA f :
                           IF f.word \in {<<"i", "n", "f">>,
                                          <<"i", "n", "f", "i", "n", "i", "t", "y">>}
                           THEN [ok |-> TRUE, val |-> DInf(f.sign)]
                           ELSE IF f.word = <<"n", "a", "n">>
                           THEN [ok |-> TRUE, val |-> DNan]
                           ELSE Bind(Cut(f.word, "e"),
                                     LAMBDA parts :
                                         FloatOfParts(f.sign, Cut(parts.head, "."),
                                             parts.found,
                                             Signed(parts.tail) /\ parts.tail[1] = "-",
                                             Unsigned(parts.tail)))))

\* the message of the ValueError of float(s)
FloatError(s) ==
    <<"c", "o", "u", "l", "d", " ", "n", "o", "t", " ", "c", "o", "n", "v", "e", "r",
      "t", " ", "s", "t", "r", "i", "n", "g", " ", "t", "o", " ", "f", "l", "o", "a",
      "t", ":", " ">>
      \o Repr(s)
(***************************************************************************)
(* ir_system.py: constants and preprocessing.                              *)
(***************************************************************************)
OUTPUT_FILE == <<"R", "e", "s", "u", "l", "t", "s", ".", "t", "x", "t">>

RUN_TAG == <<"B", "M", "2", "5", "_", "R", "u", "n", "_", "1">>

\* k1 = 1.2 and b = 0.75: the floats nearest to the literals
k1 == DOfDecimal(0, <<12>>, -1)

b == DOfDecimal(0, <<75>>, -2)

TopK == 100

NoException == [type |-> "", msg |-> <<>>]

\* an exception of the given type with its message
Raise(type, msg) == [type |-> type, msg |-> msg]

\* the text of the stopword file of the model
StopwordsFile == <<"<", "h", "t", "m", "l", ">", "<", "p", "r", "e", ">", "\n", "O",
                   "f", "\n", "\n", "<", "/", "p", "r", "e", ">", "<", "/", "h", "t",
                   "m", "l", ">", "\n">>

\* str.find(pat) + 1: the first position where pat stands in s, 0 when none
Find(s, pat) ==
    Bind({i \in 1..(Len(s) - Len(pat) + 1) : SubSeq(s, i, i + Len(pat) - 1) = pat},
         LAMBDA hits : IF hits = {} THEN 0 ELSE MinOf(hits))

\* s.split(pat)[0]: what stands before the first pat, all of s when none
Before(s, pat) ==
    Bind(Find(s, pat), LAMBDA at : IF at = 0 THEN s ELSE SubSeq(s, 1, at - 1))

\* str.splitlines(): the lines without their ends; "\r\n" is one line end
splitlines(s) ==
    Pieces(Iterate(LAMBDA st, i :
                       IF s[i] = "\r" /\ i < Len(s) /\ s[i + 1] = "\n"
                       THEN st
                       ELSE IF s[i] \in {"\r", "\n", "\f"}
                       THEN [cur |-> <<>>, acc |-> Append(st.acc, st.cur)]
                       ELSE [cur |-> Append(st.cur, s[i]), acc |-> st.acc],
                   [cur |-> <<>>, acc |-> <<>>], 1, Len(s)))

\* the loop of load_stopwords over content.splitlines(): the lines stripped
\* and lowercased, the empty ones dropped
StopwordsOf(content) == {lower(strip(line)) : line \in Range(splitlines(content))} \ {<<>>}

\* load_stopwords on the text of a file that exists: of the text inside the
\* first <pre> element when there is one (content.split('<pre>')[1], cut at
\* the first '</pre>'), of the whole text otherwise
load_stopwords(content) ==
    IF Find(content, <<"<", "p", "r", "e", ">">>) = 0 THEN StopwordsOf(content)
    ELSE StopwordsOf(Before(Before(SubSeq(content, Find(content, <<"<", "p", "r", "e", ">">>) + 5,
                                          Len(content)),
                                   <<"<", "p", "r", "e", ">">>),
                            <<"<", "/", "p", "r", "e", ">">>))

STOPWORDS == load_stopwords(StopwordsFile)

\* preprocess(text): lowercase, blank out everything outside [a-z0-9\s],
\* split, drop stopwords and one-character tokens.  The stemmer is the
\* ImportError branch (no NLTK installed): tokens pass unchanged.
preprocess(text) ==
    IF text = <<>> THEN <<>>
    ELSE SelectSeq(split([i \in DOMAIN text |->
                             IF lower(text)[i] \in Range(LowerCase) \cup Range(DigitChars)
                                                      \cup Whitespace
                             THEN lower(text)[i] ELSE " "]),
                   LAMBDA t : t \notin STOPWORDS /\ Len(t) > 1)

\* the records of the small corpus: every id with every (title, text)
Records ==
    { [_id |-> d, title |-> c.title, text |-> c.text] :
        d \in {<<"x">>, <<"y", " ", "z">>},
        c \in { [title |-> <<>>, text |-> <<"o", "f", " ", "a">>],
                [title |-> <<"A", "b">>, text |-> <<"c", "d">>],
                [title |-> <<"a", "b", "-", "c", "d", " ", "a", "b", " ", "a">>,
                 text |-> <<>>] } }

\* the i-th record of the large corpus
BulkRecord(i) ==
    [_id   |-> NatToStr(i),
     title |-> IF i % 3 = 0 THEN <<"a", "b">>
               ELSE IF i % 3 = 1 THEN <<"a", "b", " ", "c", "d", " ", "a", "b">>
               ELSE <<"c", "d", " ", "e", "f">>,
     text  |-> <<>>]

QueryRecords ==
    { [_id |-> <<"3">>, text |-> <<"a", "b", " ", "c", "d", " ", "A", "B">>],
      [_id |-> <<"1", "_", "1">>, text |-> <<"c", "d", ",", "z", "z">>],
      [_id |-> <<"2">>, text |-> <<"a", "b">>],
      [_id |-> <<"q", "1">>, text |-> <<"a", "b">>] }

\* the calls of run_system: the two experiments of the script on the small
\* corpus, the first one on the large corpus, and a call with the defaults
Runs ==
    { [use_full_text |-> FALSE, corpus |-> "small",
       output_file |-> <<<<"R", "e", "s", "u", "l", "t", "s", "_", "T", "i", "t", "l",
                           "e", "O", "n", "l", "y", ".", "t", "x", "t">>>>,
       run_tag |-> <<<<"B", "M", "2", "5", "_", "T", "i", "t", "l", "e", "O", "n", "l",
                       "y", "_", "R", "u", "n">>>>],
      [use_full_text |-> TRUE, corpus |-> "small",
       output_file |-> <<<<"R", "e", "s", "u", "l", "t", "s", "_", "F", "u", "l", "l",
                           "T", "e", "x", "t", ".", "t", "x", "t">>>>,
       run_tag |-> <<<<"B", "M", "2", "5", "_", "F", "u", "l", "l", "T", "e", "x", "t",
                       "_", "R", "u", "n">>>>],
      [use_full_text |-> FALSE, corpus |-> "bulk",
       output_file |-> <<<<"R", "e", "s", "u", "l", "t", "s", "_", "T", "i", "t", "l",
                           "e", "O", "n", "l", "y", ".", "t", "x", "t">>>>,
       run_tag |-> <<<<"B", "M", "2", "5", "_", "T", "i", "t", "l", "e", "O", "n", "l",
                       "y", "_", "R", "u", "n">>>>],
      [use_full_text |-> TRUE, corpus |-> "small", output_file |-> <<>>,
       run_tag |-> <<>>] }

\* term_counts = collections.Counter(tokens)
term_counts(tokens) ==
    [t \in Range(tokens) |-> Cardinality({i \in DOMAIN tokens : tokens[i] = t})]

\* for term, tf in term_counts.items(): inverted_index[term].append((doc_id, tf))
AppendPostings(index, doc_id, counts) ==
    [t \in DOMAIN index \cup DOMAIN counts |->
        (IF t \in DOMAIN index THEN index[t] ELSE <<>>)
          \o (IF t \in DOMAIN counts THEN <<<<doc_id, counts[t]>>>> ELSE <<>>)]

\* one iteration of build_index's loop over the corpus lines, for one of the
\* records the corpus file can deliver next
BuildIndexDoc ==
    /\ ir_pc = "build_index"
    /\ \E rec \in (IF corpus = "small"
                   THEN IF num_docs < MaxDocs THEN Records ELSE {}
                   ELSE IF num_docs < BulkDocs THEN {BulkRecord(num_docs + 1)} ELSE {}) :
         \E tokens \in {preprocess(IF use_full_text
                                   THEN rec.title \o <<" ">> \o rec.text
                                   ELSE rec.title)} :
            /\ doc_lengths' = [d \in DOMAIN doc_lengths \cup {rec._id} |->
                                 IF d = rec._id THEN Len(tokens) ELSE doc_lengths[d]]
            /\ total_tokens' = total_tokens + Len(tokens)
            /\ num_docs' = num_docs + 1
            /\ inverted_index' = AppendPostings(inverted_index, rec._id,
                                                term_counts(tokens))
    /\ UNCHANGED <<ir_pc, ir_exc, use_full_text, output_file, run_tag, corpus,
                   avg_doc_length, num_queries, q_id, q_tokens, doc_scores, sorted_docs,
                   run_results>>
    /\ UNCHANGED <<envVars, trecVars, mapVars>>

\* the average with floor division (total_tokens // num_docs)
AvgDocLengthFloor(total, n) == IF n > 0 THEN DFromInt(total \div n) ELSE DZero(0)

\* avg_doc_length = total_tokens / num_docs if num_docs > 0, else the initial 0
AvgDocLength(total, n) ==
    IF n > 0 THEN DDiv(DFromInt(total), DFromInt(n)) ELSE DZero(0)

\* the end of the corpus file: build_index computes the average and returns
BuildIndexReturn ==
    /\ ir_pc = "build_index"
    /\ corpus = "bulk" => num_docs = BulkDocs
    /\ avg_doc_length' = AvgDocLength(total_tokens, num_docs)
    /\ ir_pc' = "queries"
    /\ UNCHANGED <<ir_exc, use_full_text, output_file, run_tag, corpus, inverted_index,
                   doc_lengths, total_tokens, num_docs, num_queries, q_id, q_tokens,
                   doc_scores, sorted_docs, run_results>>
    /\ UNCHANGED <<envVars, trecVars, mapVars>>

(***************************************************************************)
(* ir_system.py: score_query.                                              *)
(***************************************************************************)
\* scores[doc_id] += c on a defaultdict(float) that keeps insertion order
AddScore(scores, doc_id, c) ==
    IF \E i \in DOMAIN scores : scores[i].doc_id = doc_id
    THEN [i \in DOMAIN scores |->
            IF scores[i].doc_id = doc_id
            THEN [doc_id |-> doc_id, score |-> DAdd(scores[i].score, c)]
            ELSE scores[i]]
    ELSE Append(scores, [doc_id |-> doc_id, score |-> DAdd(DZero(0), c)])

\* idf = math.log((num_docs - n + 0.5) / (n + 0.5) + 1), n = len(postings)
Idf(N, n) ==
    Bind(DOfDecimal(0, <<5>>, -1),
         LAMBDA half :
             DLog(DAdd(DDiv(DAdd(DFromInt(N - n), half), DAdd(DFromInt(n), half)),
                       DFromInt(1))))

\* numerator = tf * (k1 + 1)
numerator(tf) == DMul(DFromInt(tf), DAdd(k1, DFromInt(1)))

\* denominator = tf + k1 * (1 - b + b * (doc_len / avg_doc_length))
denominator(tf, doc_len, avg) ==
    DAdd(DFromInt(tf),
         DMul(k1, DAdd(DSub(DFromInt(1), b), DMul(b, DDiv(DFromInt(doc_len), avg)))))

\* idf * (numerator / denominator) of one posting, for avg_doc_length # 0
Contribution(idf, tf, doc_len, avg) ==
    DMul(idf, DDiv(numerator(tf), denominator(tf, doc_len, avg)))

\* for doc_id, tf in postings: ...; the division by a zero average raises
\* ZeroDivisionError (err), which ends the loops
ScorePostings(r, postings, idf, lens, avg) ==
    Iterate(LAMBDA st, j :
                IF st.err THEN st
                ELSE IF avg.m = <<>> THEN [err |-> TRUE, scores |-> st.scores]
                ELSE [err |-> FALSE,
                      scores |-> AddScore(st.scores, postings[j][1],
                                     Contribution(idf, postings[j][2],
                                                  lens[postings[j][1]], avg))],
            r, 1, Len(postings))

\* for term in query_tokens: ...
ScoreTerms(query_tokens, index, lens, avg, N) ==
    Iterate(LAMBDA r, i :
                IF r.err \/ query_tokens[i] \notin DOMAIN index THEN r
                ELSE Bind(Idf(N, Len(index[query_tokens[i]])),
                          LAMBDA idf : ScorePostings(r, index[query_tokens[i]], idf,
                                                     lens, avg)),
            [err |-> FALSE, scores |-> <<>>], 1, Len(query_tokens))

\* score_query looping over the distinct query tokens only (the first
\* occurrence of each)
score_query_distinct(query_tokens, index, lens, avg, N) ==
    ScoreTerms(SelectSeq([i \in DOMAIN query_tokens |->
                             IF \E j \in 1..(i - 1) : query_tokens[j] = query_tokens[i]
                             THEN <<>>
                             ELSE query_tokens[i]],
                         LAMBDA t : t # <<>>),
               index, lens, avg, N)

\* score_query: err is TRUE when ZeroDivisionError is raised
score_query(query_tokens, index, lens, avg, N) ==
    ScoreTerms(query_tokens, index, lens, avg, N)

(***************************************************************************)
(* ir_system.py: run_system.                                               *)
(***************************************************************************)
\* the key of the descending order: the key of the ascending one negated
Reversed(key) == [i \in DOMAIN key |-> 0 - key[i]]

\* the ranking without reverse=True
SortAndRankAscending(scores) ==
    Bind(StableSort(scores, [i \in DOMAIN scores |-> DKey(scores[i].score)]),
         LAMBDA ordered : SubSeq(ordered, 1, Min(TopK, Len(ordered))))

\* sorted(doc_scores.items(), key=lambda x: x[1], reverse=True)[:100]
SortAndRank(scores) ==
    Bind(StableSort(scores, [i \in DOMAIN scores |-> Reversed(DKey(scores[i].score))]),
         LAMBDA ordered : SubSeq(ordered, 1, Min(TopK, Len(ordered))))

\* one iteration of run_system's loop over the query lines: q_id is parsed,
\* an even one is skipped; the others are tokenised, scored and ranked
RunQuery ==
    /\ ir_pc = "queries"
    /\ num_queries < MaxQueries
    /\ \E q \in QueryRecords : \E id \in {ParseInt(q._id)} :
         IF ~id.ok
         THEN /\ ir_pc' = "raised"
              /\ ir_exc' = Raise("ValueError", IntError(q._id))
              /\ UNCHANGED <<q_id, q_tokens, doc_scores, sorted_docs, run_results>>
         ELSE IF Digit(id.val.mag, 1) % 2 = 0
         THEN UNCHANGED <<ir_pc, ir_exc, q_id, q_tokens, doc_scores, sorted_docs,
                          run_results>>
         ELSE \E tokens \in {preprocess(q.text)} :
              \E r \in {score_query(tokens, inverted_index, doc_lengths,
                                    avg_doc_length, num_docs)} :
                IF r.err
                THEN /\ ir_pc' = "raised"
                     /\ ir_exc' = Raise("ZeroDivisionError", <<"f", "l", "o", "a", "t", " ", "d", "i", "v", "i", "s",
                                "i", "o", "n", " ", "b", "y", " ", "z", "e", "r", "o">>)
                     /\ UNCHANGED <<q_id, q_tokens, doc_scores, sorted_docs, run_results>>
                ELSE \E ranked \in {SortAndRank(r.scores)} :
                       /\ q_id' = q._id
                       /\ q_tokens' = tokens
                       /\ doc_scores' = r.scores
                       /\ sorted_docs' = ranked
                       /\ run_results' = run_results \o
                            [i \in DOMAIN ranked |->
                               [q_id |-> q._id, doc_id |-> ranked[i].doc_id,
                                rank |-> i, score |-> ranked[i].score]]
                       /\ UNCHANGED <<ir_pc, ir_exc>>
    /\ num_queries' = num_queries + 1
    /\ UNCHANGED <<use_full_text, output_file, run_tag, corpus, inverted_index,
                   doc_lengths, total_tokens, num_docs, avg_doc_length>>
    /\ UNCHANGED <<envVars, trecVars, mapVars>>

\* f"{q_id} Q0 {doc_id} {rank} {score:.4f} {run_tag}\n"
ResultLine(t, tag) ==
    t.q_id \o <<" ", "Q", "0", " ">> \o t.doc_id \o <<" ">> \o NatToStr(t.rank)
      \o <<" ">> \o DFormat(t.score, 4) \o <<" ">> \o tag \o <<"\n">>

\* results.sort(key=lambda x: (int(x[0]), x[2]))
SortResults(rs) ==
    StableSort(rs, [i \in DOMAIN rs |-> IntKey(ParseInt(rs[i].q_id).val) \o <<rs[i].rank>>])

\* for q_id, doc_id, rank, score, in results: f.write(...): the text written
WriteLines(rs, tag) == Concat([i \in DOMAIN rs |-> ResultLine(rs[i], tag)])

\* the end of the query file: run_system opens the output file, sorts its
\* results and writes them
WriteResults ==
    /\ ir_pc = "queries"
    /\ run_results' = SortResults(run_results)
    /\ files' = [p \in DOMAIN files \cup {output_file} |->
                   IF p = output_file THEN WriteLines(run_results', run_tag)
                   ELSE files[p]]
    /\ ir_pc' = "done"
    /\ UNCHANGED <<ir_exc, use_full_text, output_file, run_tag, corpus, inverted_index,
                   doc_lengths, total_tokens, num_docs, avg_doc_length, num_queries,
                   q_id, q_tokens, doc_scores, sorted_docs>>
    /\ UNCHANGED <<argv, trecVars, mapVars>>

(***************************************************************************)
(* trec_eval.py: the loaders.  A function that can raise returns a record  *)
(* with the exception (NoException when it returns) and its value.         *)
(***************************************************************************)
\* open(path, 'r') of a path that is not there
FileNotFound(path) ==
    Raise("FileNotFoundError",
          <<"[", "E", "r", "r", "n", "o", " ", "2", "]", " ", "N", "o", " ", "s", "u",
            "c", "h", " ", "f", "i", "l", "e", " ", "o", "r", " ", "d", "i", "r", "e",
            "c", "t", "o", "r", "y", ":", " ">> \o Repr(path))

\* qrels[query_id].add(doc_id) on a defaultdict(set)
AddRelevant(map, query_id, doc_id) ==
    [q \in DOMAIN map \cup {query_id} |->
        (IF q \in DOMAIN map THEN map[q] ELSE {})
          \cup (IF q = query_id THEN {doc_id} ELSE {})]

\* the body of load_qrels' loop for the line with number line_num: with
\* three fields or more, relevance = int(parts[-1].strip()) and, when it is
\* positive, qrels[parts[0].strip()].add(parts[-2].strip())
QrelsLine(st, line_num, line) ==
    IF st.exc # NoException \/ line = <<>> THEN st
    ELSE IF line_num = 0 /\ StartsWith(line, <<"q", "u", "e", "r", "y", "-", "i", "d">>) THEN st
    ELSE Bind(IF "\t" \in Range(line) THEN SplitOn(line, "\t") ELSE split(line),
              LAMBDA parts :
                  IF Len(parts) < 3 THEN st
                  ELSE Bind(ParseInt(strip(parts[Len(parts)])),
                            LAMBDA relevance :
                                IF ~relevance.ok
                                THEN [exc |-> Raise("ValueError",
                                                    IntError(strip(parts[Len(parts)]))),
                                      val |-> st.val]
                                ELSE IF ~relevance.val.neg /\ relevance.val.mag # <<>>
                                THEN [exc |-> NoException,
                                      val |-> AddRelevant(st.val, strip(parts[1]),
                                                          strip(parts[Len(parts) - 1]))]
                                ELSE st))

\* trec_eval.load_qrels(qrels_file)
load_qrels(fs, path) ==
    IF path \notin DOMAIN fs THEN [exc |-> FileNotFound(path), val |-> EmptyMap]
    ELSE Bind(ReadLines(fs[path]),
              LAMBDA lines :
                  Iterate(LAMBDA st, i : QrelsLine(st, i - 1, strip(lines[i])),
                          [exc |-> NoException, val |-> EmptyMap], 1, Len(lines)))

\* results[query_id].append(entry) on a defaultdict(list)
AppendResult(map, query_id, entry) ==
    [q \in DOMAIN map \cup {query_id} |->
        (IF q \in DOMAIN map THEN map[q] ELSE <<>>)
          \o (IF q = query_id THEN <<entry>> ELSE <<>>)]

\* the body of load_results' loop for the fields of one line: with six
\* fields or more, rank = int(parts[3]) and score = float(parts[4])
ResultsLine(st, parts) ==
    IF st.exc # NoException \/ Len(parts) < 6 THEN st
    ELSE Bind(ParseInt(parts[4]),
              LAMBDA rank :
                  IF ~rank.ok
                  THEN [exc |-> Raise("ValueError", IntError(parts[4])), val |-> st.val]
                  ELSE Bind(ParseFloat(parts[5]),
                            LAMBDA score :
                                IF ~score.ok
                                THEN [exc |-> Raise("ValueError", FloatError(parts[5])),
                                      val |-> st.val]
                                ELSE [exc |-> NoException,
                                      val |-> AppendResult(st.val, parts[1],
                                                  [doc_id |-> parts[3],
                                                   rank |-> rank.val,
                                                   score |-> score.val])]))

\* the loop of load_results over the lines of the file
ReadResults(fs, path) ==
    IF path \notin DOMAIN fs THEN [exc |-> FileNotFound(path), val |-> EmptyMap]
    ELSE Bind(ReadLines(fs[path]),
              LAMBDA lines :
                  Iterate(LAMBDA st, i : ResultsLine(st, split(lines[i])),
                          [exc |-> NoException, val |-> EmptyMap], 1, Len(lines)))

\* for query_id in results: results[query_id].sort(key=lambda x: x[1])
SortedLists(r) ==
    [exc |-> r.exc,
     val |-> IF r.exc # NoException THEN r.val
             ELSE [q \in DOMAIN r.val |->
                      StableSort(r.val[q],
                                 [i \in DOMAIN r.val[q] |-> IntKey(r.val[q][i].rank)])]]

\* trec_eval.load_results(results_file)
load_results(fs, path) == SortedLists(ReadResults(fs, path))

(***************************************************************************)
(* trec_eval.py: calculate_metrics.                                        *)
(***************************************************************************)
\* rel_ret after i entries: the entries among the first i whose doc_id is
\* relevant
RelevantUpTo(relevant_docs, retrieved_docs, i) ==
    Cardinality({j \in 1..i : retrieved_docs[j].doc_id \in relevant_docs})

\* precision_at_ranks[i - 1] = rel_ret / (i + 1) of the i-th entry
PrecisionAt(relevant_docs, retrieved_docs, i) ==
    DDiv(DFromInt(RelevantUpTo(relevant_docs, retrieved_docs, i)), DFromInt(i))

\* precision_at_ranks[n - 1] if len(precision_at_ranks) > n - 1 else 0.0
PrecisionAtCutoff(relevant_docs, retrieved_docs, n) ==
    IF Len(retrieved_docs) >= n THEN PrecisionAt(relevant_docs, retrieved_docs, n)
    ELSE DZero(0)

\* ap_sum: the sum, in list order, of rel_found / (i + 1) over the relevant
\* entries
PrecisionSum(relevant_docs, retrieved_docs) ==
    Iterate(LAMBDA acc, i :
                IF retrieved_docs[i].doc_id \in relevant_docs
                THEN DAdd(acc, PrecisionAt(relevant_docs, retrieved_docs, i))
                ELSE acc,
            DZero(0), 1, Len(retrieved_docs))

\* ap = ap_sum / num_relevant if num_relevant > 0 else 0.0
AveragePrecision(relevant_docs, retrieved_docs) ==
    IF Cardinality(relevant_docs) > 0
    THEN DDiv(PrecisionSum(relevant_docs, retrieved_docs),
              DFromInt(Cardinality(relevant_docs)))
    ELSE DZero(0)

\* final_recall = recall_at_ranks[-1] if recall_at_ranks else 0.0
FinalRecall(relevant_docs, retrieved_docs) ==
    IF retrieved_docs # <<>>
    THEN DDiv(DFromInt(RelevantUpTo(relevant_docs, retrieved_docs, Len(retrieved_docs))),
              DFromInt(Cardinality(relevant_docs)))
    ELSE DZero(0)

\* r_prec: computed only when num_relevant <= len(retrieved_docs)
RPrecision(relevant_docs, retrieved_docs) ==
    IF Cardinality(relevant_docs) <= Len(retrieved_docs)
    THEN DDiv(DFromInt(RelevantUpTo(relevant_docs, retrieved_docs,
                           Min(Cardinality(relevant_docs), Len(retrieved_docs)))),
              DFromInt(Cardinality(relevant_docs)))
    ELSE DZero(0)

\* the reciprocal of the list position of the first relevant entry
RecipRankByPosition(relevant_docs, retrieved_docs) ==
    Bind({i \in DOMAIN retrieved_docs : retrieved_docs[i].doc_id \in relevant_docs},
         LAMBDA hits :
             IF hits = {} THEN [exc |-> NoException, val |-> DZero(0)]
             ELSE [exc |-> NoException,
                   val |-> DDiv(DFromInt(1), DFromInt(MinOf(hits)))])

\* recip_rank = 1.0 / rank of the first relevant entry, 0.0 when there is
\* none (hits are the positions of the relevant entries): rank is converted
\* to a float, which raises OverflowError when it is too large, and the
\* division raises ZeroDivisionError when it is 0
RecipRank(relevant_docs, retrieved_docs) ==
    Bind({i \in DOMAIN retrieved_docs : retrieved_docs[i].doc_id \in relevant_docs},
         LAMBDA hits :
             IF hits = {} THEN [exc |-> NoException, val |-> DZero(0)]
             ELSE Bind(DFromBig(retrieved_docs[MinOf(hits)].rank),
                       LAMBDA rank :
                           IF rank.k = "inf"
                           THEN [exc |-> Raise("OverflowError",
                                               <<"i", "n", "t", " ", "t", "o", "o", " ", "l", "a", "r",
                                "g", "e", " ", "t", "o", " ", "c", "o", "n", "v", "e",
                                "r", "t", " ", "t", "o", " ", "f", "l", "o", "a", "t">>),
                                 val |-> DZero(0)]
                           ELSE IF rank.m = <<>>
                           THEN [exc |-> Raise("ZeroDivisionError",
                                               <<"f", "l", "o", "a", "t", " ", "d", "i", "v", "i", "s",
                                "i", "o", "n", " ", "b", "y", " ", "z", "e", "r", "o">>),
                                 val |-> DZero(0)]
                           ELSE [exc |-> NoException, val |-> DDiv(DFromInt(1), rank)]))

\* the record stored in query_metrics[query_id]
QueryMetrics(relevant_docs, retrieved_docs, recip_rank) ==
    [ap          |-> AveragePrecision(relevant_docs, retrieved_docs),
     P_5         |-> PrecisionAtCutoff(relevant_docs, retrieved_docs, 5),
     P_10        |-> PrecisionAtCutoff(relevant_docs, retrieved_docs, 10),
     P_30        |-> PrecisionAtCutoff(relevant_docs, retrieved_docs, 30),
     recall      |-> FinalRecall(relevant_docs, retrieved_docs),
     Rprec       |-> RPrecision(relevant_docs, retrieved_docs),
     recip_rank  |-> recip_rank,
     num_rel     |-> Cardinality(relevant_docs),
     num_ret     |-> Len(retrieved_docs),
     num_rel_ret |-> RelevantUpTo(relevant_docs, retrieved_docs, Len(retrieved_docs))]

\* the running sums after the query with the metrics record qm
AddQuery(st, query_id, qm) ==
    [exc |-> NoException,
     per |-> [q \in DOMAIN st.per \cup {query_id} |->
                 IF q = query_id THEN qm ELSE st.per[q]],
     total_queries   |-> st.total_queries + 1,
     total_relevant  |-> st.total_relevant + qm.num_rel,
     total_retrieved |-> st.total_retrieved + qm.num_ret,
     total_rel_ret   |-> st.total_rel_ret + qm.num_rel_ret,
     sum_ap          |-> DAdd(st.sum_ap, qm.ap),
     sum_p5          |-> DAdd(st.sum_p5, qm.P_5),
     sum_p10         |-> DAdd(st.sum_p10, qm.P_10),
     sum_p30         |-> DAdd(st.sum_p30, qm.P_30),
     sum_recall      |-> DAdd(st.sum_recall, qm.recall),
     sum_rprec       |-> DAdd(st.sum_rprec, qm.Rprec),
     sum_recip_rank  |-> DAdd(st.sum_recip_rank, qm.recip_rank)]

\* the body of calculate_metrics' loop over sorted(qrels.keys())
MetricsStep(st, query_id, relevant_docs, results_map) ==
    IF st.exc # NoException \/ query_id \notin DOMAIN results_map \/ relevant_docs = {}
    THEN st
    ELSE Bind(RecipRank(relevant_docs, results_map[query_id]),
              LAMBDA rr :
                  IF rr.exc # NoException THEN [st EXCEPT !.exc = rr.exc]
                  ELSE AddQuery(st, query_id,
                                QueryMetrics(relevant_docs, results_map[query_id],
                                             rr.val)))

\* the overall metrics: stored only when total_queries > 0
Overall(st) ==
    IF st.total_queries > 0
    THEN [map         |-> DDiv(st.sum_ap, DFromInt(st.total_queries)),
          P_5         |-> DDiv(st.sum_p5, DFromInt(st.total_queries)),
          P_10        |-> DDiv(st.sum_p10, DFromInt(st.total_queries)),
          P_30        |-> DDiv(st.sum_p30, DFromInt(st.total_queries)),
          recall      |-> DDiv(st.sum_recall, DFromInt(st.total_queries)),
          Rprec       |-> DDiv(st.sum_rprec, DFromInt(st.total_queries)),
          recip_rank  |-> DDiv(st.sum_recip_rank, DFromInt(st.total_queries)),
          num_q       |-> st.total_queries,
          num_rel     |-> st.total_relevant,
          num_ret     |-> st.total_retrieved,
          num_rel_ret |-> st.total_rel_ret]
    ELSE EmptyMap

\* trec_eval.calculate_metrics(qrels, results): its two results, or its
\* exception
calculate_metrics(qrels_map, results_map) ==
    Bind(SortedKeys(DOMAIN qrels_map),
         LAMBDA keys :
             Bind(Iterate(LAMBDA st, i :
                              MetricsStep(st, keys[i], qrels_map[keys[i]], results_map),
                          [exc |-> NoException, per |-> EmptyMap, total_queries |-> 0,
                           total_relevant |-> 0, total_retrieved |-> 0,
                           total_rel_ret |-> 0, sum_ap |-> DZero(0),
                           sum_p5 |-> DZero(0), sum_p10 |-> DZero(0),
                           sum_p30 |-> DZero(0), sum_recall |-> DZero(0),
                           sum_rprec |-> DZero(0), sum_recip_rank |-> DZero(0)],
                          1, Len(keys)),
                  LAMBDA end : [exc |-> end.exc, all |-> Overall(end), per |-> end.per]))

(***************************************************************************)
(* trec_eval.py: print_results and main.                                   *)
(***************************************************************************)
\* the labels of the printed lines, padded as in the f-strings
MetricLabels ==
    [ap         |-> <<"m", "a", "p", " ", " ", " ", " ", " ", " ", " ", " ", " ", " ",
                      " ", " ", " ", " ", " ", " ", " ", " ", "\t">>,
     Rprec      |-> <<"R", "p", "r", "e", "c", " ", " ", " ", " ", " ", " ", " ", " ",
                      " ", " ", " ", " ", " ", " ", " ", " ", "\t">>,
     P_5        |-> <<"P", "_", "5", " ", " ", " ", " ", " ", " ", " ", " ", " ", " ",
                      " ", " ", " ", " ", " ", " ", " ", " ", "\t">>,
     P_10       |-> <<"P", "_", "1", "0", " ", " ", " ", " ", " ", " ", " ", " ", " ",
                      " ", " ", " ", " ", " ", " ", " ", " ", "\t">>,
     P_30       |-> <<"P", "_", "3", "0", " ", " ", " ", " ", " ", " ", " ", " ", " ",
                      " ", " ", " ", " ", " ", " ", " ", " ", "\t">>,
     recall     |-> <<"r", "e", "c", "a", "l", "l", " ", " ", " ", " ", " ", " ", " ",
                      " ", " ", " ", " ", " ", " ", " ", " ", "\t">>,
     recip_rank |-> <<"r", "e", "c", "i", "p", "_", "r", "a", "n", "k", " ", " ", " ",
                      " ", " ", " ", " ", " ", " ", " ", " ", "\t">>,
     num_q      |-> <<"n", "u", "m", "_", "q", " ", " ", " ", " ", " ", " ", " ", " ",
                      " ", " ", " ", " ", " ", " ", " ", " ", "\t">>,
     num_rel    |-> <<"n", "u", "m", "_", "r", "e", "l", " ", " ", " ", " ", " ", " ",
                      " ", " ", " ", " ", " ", " ", " ", " ", "\t">>,
     num_ret    |-> <<"n", "u", "m", "_", "r", "e", "t", " ", " ", " ", " ", " ", " ",
                      " ", " ", " ", " ", " ", " ", " ", " ", "\t">>,
     num_rel_ret |-> <<"n", "u", "m", "_", "r", "e", "l", "_", "r", "e", "t", " ", " ",
                       " ", " ", " ", " ", " ", " ", " ", " ", "\t">>]

\* one loop of print_results over sorted(query_metrics.keys())
PerQueryLines(per, field) ==
    Bind(SortedKeys(DOMAIN per),
         LAMBDA keys :
             [i \in DOMAIN keys |->
                 MetricLabels[field] \o keys[i] \o <<"\t">>
                   \o DFormat(per[keys[i]][field], 4)])

\* the line of an overall average
AverageLine(all, field, key) ==
    MetricLabels[field] \o <<"a", "l", "l", "\t">> \o DFormat(all[key], 4)

\* the line of an overall count
CountLine(all, key) == MetricLabels[key] \o <<"a", "l", "l", "\t">> \o NatToStr(all[key])

\* print_results(all_metrics, query_metrics): the lines it prints; without
\* the key 'map' it raises KeyError after the per-query lines
print_results(all, per) ==
    [exc |-> IF "map" \in DOMAIN all THEN NoException ELSE Raise("KeyError", <<"'", "m", "a", "p", "'">>),
     out |-> PerQueryLines(per, "ap") \o PerQueryLines(per, "Rprec")
               \o PerQueryLines(per, "P_5") \o PerQueryLines(per, "P_10")
               \o PerQueryLines(per, "P_30") \o PerQueryLines(per, "recall")
               \o PerQueryLines(per, "recip_rank")
               \o (IF "map" \in DOMAIN all
                   THEN <<AverageLine(all, "ap", "map"),
                          AverageLine(all, "Rprec", "Rprec"),
                          AverageLine(all, "P_5", "P_5"),
                          AverageLine(all, "P_10", "P_10"),
                          AverageLine(all, "P_30", "P_30"),
                          AverageLine(all, "recall", "recall"),
                          AverageLine(all, "recip_rank", "recip_rank"),
                          CountLine(all, "num_q"), CountLine(all, "num_rel"),
                          CountLine(all, "num_ret"), CountLine(all, "num_rel_ret")>>
                   ELSE <<>>)]

\* main: the wrong number of arguments
Usage ==
    /\ pc = "start"
    /\ Len(argv) # 2
    /\ stdout' = stdout \o
         <<<<"U", "s", "a", "g", "e", ":", " ", "p", "y", "t", "h", "o", "n", " ", "t",
             "r", "e", "c", "_", "e", "v", "a", "l", ".", "p", "y", " ", "q", "r", "e",
             "l", "s", "_", "f", "i", "l", "e", " ", "r", "e", "s", "u", "l", "t", "s",
             "_", "f", "i", "l", "e">>,
           <<"E", "x", "a", "m", "p", "l", "e", ":", " ", "p", "y", "t", "h", "o", "n",
             " ", "t", "r", "e", "c", "_", "e", "v", "a", "l", ".", "p", "y", " ", "s",
             "c", "i", "f", "a", "c", "t", "/", "s", "c", "i", "f", "a", "c", "t", "/",
             "q", "r", "e", "l", "s", "/", "t", "e", "s", "t", ".", "t", "s", "v", " ",
             "R", "e", "s", "u", "l", "t", "s", "_", "F", "u", "l", "l", "T", "e", "x",
             "t", ".", "t", "x", "t">>>>
    /\ exit_code' = 1
    /\ pc' = "exit"
    /\ UNCHANGED <<exc, qrels, results, all_metrics, query_metrics>>
    /\ UNCHANGED <<envVars, irVars, mapVars>>

\* main: qrels = load_qrels(qrels_file)
LoadQrels ==
    /\ pc = "start"
    /\ Len(argv) = 2
    /\ \E r \in {load_qrels(files, argv[1])} :
         IF r.exc = NoException
         THEN qrels' = r.val /\ pc' = "qrels_loaded" /\ UNCHANGED exc
         ELSE exc' = r.exc /\ pc' = "except" /\ UNCHANGED qrels
    /\ UNCHANGED <<results, all_metrics, query_metrics, stdout, exit_code>>
    /\ UNCHANGED <<envVars, irVars, mapVars>>

\* main: results = load_results(results_file)
LoadResults ==
    /\ pc = "qrels_loaded"
    /\ \E r \in {load_results(files, argv[2])} :
         IF r.exc = NoException
         THEN results' = r.val /\ pc' = "loaded" /\ UNCHANGED exc
         ELSE exc' = r.exc /\ pc' = "except" /\ UNCHANGED results
    /\ UNCHANGED <<qrels, all_metrics, query_metrics, stdout, exit_code>>
    /\ UNCHANGED <<envVars, irVars, mapVars>>

\* main: all_metrics, query_metrics = calculate_metrics(qrels, results)
CalculateMetrics ==
    /\ pc = "loaded"
    /\ \E r \in {calculate_metrics(qrels, results)} :
         IF r.exc = NoException
         THEN /\ all_metrics' = r.all
              /\ query_metrics' = r.per
              /\ pc' = "computed"
              /\ UNCHANGED exc
         ELSE /\ exc' = r.exc
              /\ pc' = "except"
              /\ UNCHANGED <<all_metrics, query_metrics>>
    /\ UNCHANGED <<qrels, results, stdout, exit_code>>
    /\ UNCHANGED <<envVars, irVars, mapVars>>

\* main: print_results(all_metrics, query_metrics), and the return of main
PrintResults ==
    /\ pc = "computed"
    /\ \E r \in {print_results(all_metrics, query_metrics)} :
         /\ stdout' = stdout \o r.out
         /\ IF r.exc = NoException
            THEN pc' = "exit" /\ exit_code' = 0 /\ UNCHANGED exc
            ELSE pc' = "except" /\ exc' = r.exc /\ UNCHANGED exit_code
    /\ UNCHANGED <<qrels, results, all_metrics, query_metrics>>
    /\ UNCHANGED <<envVars, irVars, mapVars>>

\* main: the except clauses, which print the error and call sys.exit(1)
MainExcept ==
    /\ pc = "except"
    /\ stdout' = Append(stdout, IF exc.type = "FileNotFoundError"
                                THEN <<"E", "r", "r", "o", "r", ":", " ", "F", "i", "l", "e",
                                " ", "n", "o", "t", " ", "f", "o", "u", "n", "d", " ",
                                "-", " ">> \o exc.msg
                                ELSE <<"E", "r", "r", "o", "r", ":", " ">> \o exc.msg)
    /\ exit_code' = 1
    /\ pc' = "exit"
    /\ UNCHANGED <<exc, qrels, results, all_metrics, query_metrics>>
    /\ UNCHANGED <<envVars, irVars, mapVars>>
(***************************************************************************)
(* evaluate_map.py.  Its qrels dictionary is kept as the list of its       *)
(* (query id, relevant set) items in insertion order, the order in which   *)
(* calculate_map goes through it.                                          *)
(***************************************************************************)
\* qrels[query_id].add(doc_id) on a defaultdict(set) that keeps its order
em_AddRelevant(items, query_id, doc_id) ==
    IF \E i \in DOMAIN items : items[i].query_id = query_id
    THEN [i \in DOMAIN items |->
            IF items[i].query_id = query_id
            THEN [query_id |-> query_id,
                  relevant_docs |-> items[i].relevant_docs \cup {doc_id}]
            ELSE items[i]]
    ELSE Append(items, [query_id |-> query_id, relevant_docs |-> {doc_id}])

\* the body of load_qrels' loop for the line with number line_num: with
\* three tab separated fields or more, relevance = int(parts[2].strip())
\* and, when it is positive, qrels[parts[0].strip()].add(parts[1].strip())
em_QrelsLine(st, line_num, line) ==
    IF st.exc # NoException THEN st
    ELSE IF line_num = 0 /\ StartsWith(line, <<"q", "u", "e", "r", "y", "-", "i", "d">>) THEN st
    ELSE IF line = <<>> THEN st
    ELSE Bind(SplitOn(line, "\t"),
              LAMBDA parts :
                  IF Len(parts) < 3 THEN st
                  ELSE Bind(ParseInt(strip(parts[3])),
                            LAMBDA relevance :
                                IF ~relevance.ok
                                THEN [exc |-> Raise("ValueError",
                                                    IntError(strip(parts[3]))),
                                      val |-> st.val]
                                ELSE IF ~relevance.val.neg /\ relevance.val.mag # <<>>
                                THEN [exc |-> NoException,
                                      val |-> em_AddRelevant(st.val, strip(parts[1]),
                                                             strip(parts[2]))]
                                ELSE st))

\* evaluate_map.load_qrels(qrels_file)
em_load_qrels(fs, path) ==
    IF path \notin DOMAIN fs THEN [exc |-> FileNotFound(path), val |-> <<>>]
    ELSE Bind(ReadLines(fs[path]),
              LAMBDA lines :
                  Iterate(LAMBDA st, i : em_QrelsLine(st, i - 1, strip(lines[i])),
                          [exc |-> NoException, val |-> <<>>], 1, Len(lines)))

\* evaluate_map.load_results(results_file): the same statements as
\* trec_eval.load_results
em_load_results(fs, path) == SortedLists(ReadResults(fs, path))

\* evaluate_map.calculate_average_precision(relevant_docs, retrieved_docs)
calculate_average_precision(relevant_docs, retrieved_docs) ==
    IF relevant_docs = {} THEN DZero(0)
    ELSE IF RelevantUpTo(relevant_docs, retrieved_docs, Len(retrieved_docs)) = 0
    THEN DZero(0)
    ELSE DDiv(PrecisionSum(relevant_docs, retrieved_docs),
              DFromInt(Cardinality(relevant_docs)))

\* f"Query {query_id}: AP = {ap:.4f} (relevant: {..}, retrieved: {..})"
QueryLine(query_id, ap, relevant_docs, retrieved_docs) ==
    <<"Q", "u", "e", "r", "y", " ">> \o query_id \o <<":", " ", "A", "P", " ", "=", " ">> \o DFormat(ap, 4) \o <<" ", "(", "r", "e", "l", "e", "v", "a", "n", "t", ":",
                                " ">>
      \o NatToStr(Cardinality(relevant_docs)) \o <<",", " ", "r", "e", "t", "r", "i", "e", "v", "e", "d",
                                ":", " ">>
      \o NatToStr(Len(retrieved_docs)) \o <<")">>

\* the body of calculate_map's loop for a query that is in results
MapQuery(st, query_id, relevant_docs, retrieved_docs, ap) ==
    [aps |-> [q \in DOMAIN st.aps \cup {query_id} |->
                IF q = query_id THEN ap ELSE st.aps[q]],
     total_ap |-> DAdd(st.total_ap, ap),
     n |-> st.n + 1,
     out |-> Append(st.out, QueryLine(query_id, ap, relevant_docs, retrieved_docs))]

\* evaluate_map.calculate_map(qrels, results): its two results and the
\* lines it printed
calculate_map(items, results_map) ==
    Bind(Iterate(LAMBDA st, i :
                     IF items[i].query_id \in DOMAIN results_map
                     THEN MapQuery(st, items[i].query_id, items[i].relevant_docs,
                              results_map[items[i].query_id],
                              calculate_average_precision(items[i].relevant_docs,
                                  results_map[items[i].query_id]))
                     ELSE st,
                 [aps |-> EmptyMap, total_ap |-> DZero(0), n |-> 0, out |-> <<>>],
                 1, Len(items)),
         LAMBDA end :
             [map_score |-> IF end.n = 0 THEN DZero(0)
                            ELSE DDiv(end.total_ap, DFromInt(end.n)),
              query_aps |-> end.aps, out |-> end.out])

\* main: the wrong number of arguments
EmUsage ==
    /\ em_pc = "start"
    /\ Len(argv) # 2
    /\ em_stdout' = em_stdout \o
         <<<<"U", "s", "a", "g", "e", ":", " ", "p", "y", "t", "h", "o", "n", " ", "e",
             "v", "a", "l", "u", "a", "t", "e", "_", "m", "a", "p", ".", "p", "y", " ",
             "<", "q", "r", "e", "l", "s", "_", "f", "i", "l", "e", ">", " ", "<", "r",
             "e", "s", "u", "l", "t", "s", "_", "f", "i", "l", "e", ">">>,
           <<"E", "x", "a", "m", "p", "l", "e", ":", " ", "p", "y", "t", "h", "o", "n",
             " ", "e", "v", "a", "l", "u", "a", "t", "e", "_", "m", "a", "p", ".", "p",
             "y", " ", "s", "c", "i", "f", "a", "c", "t", "/", "s", "c", "i", "f", "a",
             "c", "t", "/", "q", "r", "e", "l", "s", "/", "t", "e", "s", "t", ".", "t",
             "s", "v", " ", "R", "e", "s", "u", "l", "t", "s", "_", "F", "u", "l", "l",
             "T", "e", "x", "t", ".", "t", "x", "t">>>>
    /\ em_exit_code' = 1
    /\ em_pc' = "exit"
    /\ UNCHANGED <<em_exc, em_qrels, em_results, map_score, query_aps>>
    /\ UNCHANGED <<envVars, irVars, trecVars>>

\* main: qrels = load_qrels(qrels_file) between its two prints; an
\* exception is not caught and ends the script with status 1
EmLoadQrels ==
    /\ em_pc = "start"
    /\ Len(argv) = 2
    /\ \E r \in {em_load_qrels(files, argv[1])} :
         IF r.exc = NoException
         THEN /\ em_qrels' = r.val
              /\ em_stdout' = em_stdout \o
                   <<<<"L", "o", "a", "d", "i", "n", "g", " ", "r", "e", "l", "e", "v",
                       "a", "n", "c", "e", " ", "j", "u", "d", "g", "m", "e", "n", "t",
                       "s", " ", "f", "r", "o", "m", ":", " ">> \o argv[1],
                     <<"L", "o", "a", "d", "e", "d", " ">> \o NatToStr(Len(r.val))
                       \o <<" ", "q", "u", "e", "r", "i", "e", "s", " ", "w", "i", "t",
                            "h", " ", "r", "e", "l", "e", "v", "a", "n", "c", "e", " ",
                            "j", "u", "d", "g", "m", "e", "n", "t", "s">>>>
              /\ em_pc' = "qrels_loaded"
              /\ UNCHANGED <<em_exc, em_exit_code>>
         ELSE /\ em_stdout' = Append(em_stdout,
                                     <<"L", "o", "a", "d", "i", "n", "g", " ", "r", "e", "l",
                                "e", "v", "a", "n", "c", "e", " ", "j", "u", "d", "g",
                                "m", "e", "n", "t", "s", " ", "f", "r", "o", "m", ":",
                                " ">> \o argv[1])
              /\ em_exc' = r.exc
              /\ em_exit_code' = 1
              /\ em_pc' = "exit"
              /\ UNCHANGED em_qrels
    /\ UNCHANGED <<em_results, map_score, query_aps>>
    /\ UNCHANGED <<envVars, irVars, trecVars>>

\* main: results = load_results(results_file) between its two prints
EmLoadResults ==
    /\ em_pc = "qrels_loaded"
    /\ \E r \in {em_load_results(files, argv[2])} :
         IF r.exc = NoException
         THEN /\ em_results' = r.val
              /\ em_stdout' = em_stdout \o
                   <<<<"\n", "L", "o", "a", "d", "i", "n", "g", " ", "r", "e", "s",
                       "u", "l", "t", "s", " ", "f", "r", "o", "m", ":", " ">> \o argv[2],
                     <<"L", "o", "a", "d", "e", "d", " ", "r", "e", "s", "u", "l", "t",
                       "s", " ", "f", "o", "r", " ">> \o NatToStr(Cardinality(DOMAIN r.val))
                       \o <<" ", "q", "u", "e", "r", "i", "e", "s">>>>
              /\ em_pc' = "loaded"
              /\ UNCHANGED <<em_exc, em_exit_code>>
         ELSE /\ em_stdout' = Append(em_stdout, <<"\n", "L", "o", "a", "d", "i", "n", "g", " ", "r", "e",
                                "s", "u", "l", "t", "s", " ", "f", "r", "o", "m", ":",
                                " ">> \o argv[2])
              /\ em_exc' = r.exc
              /\ em_exit_code' = 1
              /\ em_pc' = "exit"
              /\ UNCHANGED em_results
    /\ UNCHANGED <<em_qrels, map_score, query_aps>>
    /\ UNCHANGED <<envVars, irVars, trecVars>>

\* main: the heading and map_score, query_aps = calculate_map(qrels, results)
EmCalculateMap ==
    /\ em_pc = "loaded"
    /\ \E r \in {calculate_map(em_qrels, em_results)} :
         /\ map_score' = r.map_score
         /\ query_aps' = r.query_aps
         /\ em_stdout' = em_stdout
              \o <<<<"\n">> \o [i \in 1..60 |-> "="], <<"E", "V", "A", "L", "U", "A", "T", "I", "O", "N", " ",
                                "R", "E", "S", "U", "L", "T", "S">>,
                   [i \in 1..60 |-> "="]>>
              \o r.out
    /\ em_pc' = "computed"
    /\ UNCHANGED <<em_exc, em_qrels, em_results, em_exit_code>>
    /\ UNCHANGED <<envVars, irVars, trecVars>>

\* sorted(list(query_aps.values()))
SortedAps(aps) ==
    Bind(SetToSeq(DOMAIN aps),
         LAMBDA keys : StableSort([i \in DOMAIN keys |-> aps[keys[i]]],
                                  [i \in DOMAIN keys |-> DKey(aps[keys[i]])]))

\* the lines main prints after calculate_map: the score, the number of
\* queries and, when there is one, the best, worst and median AP
Report(score, aps) ==
    <<<<"\n", "M", "e", "a", "n", " ", "A", "v", "e", "r", "a", "g", "e", " ", "P",
        "r", "e", "c", "i", "s", "i", "o", "n", " ", "(", "M", "A", "P", ")", ":", " ">> \o DFormat(score, 4),
      <<"N", "u", "m", "b", "e", "r", " ", "o", "f", " ", "e", "v", "a", "l", "u", "a",
        "t", "e", "d", " ", "q", "u", "e", "r", "i", "e", "s", ":", " ">> \o NatToStr(Cardinality(DOMAIN aps))>>
      \o (IF DOMAIN aps = {} THEN <<>>
          ELSE Bind(SortedAps(aps),
                    LAMBDA ap_values :
                        <<<<"B", "e", "s", "t", " ", "A", "P", ":", " ">> \o DFormat(ap_values[Len(ap_values)], 4),
                          <<"W", "o", "r", "s", "t", " ", "A", "P", ":", " ">> \o DFormat(ap_values[1], 4),
                          <<"M", "e", "d", "i", "a", "n", " ", "A", "P", ":", " ">>
                            \o DFormat(ap_values[(Len(ap_values) \div 2) + 1], 4)>>))

\* main: the report and the return of main
EmReport ==
    /\ em_pc = "computed"
    /\ em_stdout' = em_stdout \o Report(map_score, query_aps)
    /\ em_exit_code' = 0
    /\ em_pc' = "exit"
    /\ UNCHANGED <<em_exc, em_qrels, em_results, map_score, query_aps>>
    /\ UNCHANGED <<envVars, irVars, trecVars>>

(***************************************************************************)
(* The files the evaluation scripts are given.                             *)
(***************************************************************************)
QrelsPath == <<"q", "r", "e", "l", "s", ".", "t", "s", "v">>

ResultsPath == <<"r", "u", "n", ".", "t", "x", "t">>

\* the qrels files: a TSV file with its header, a space-separated file, a
\* file whose relevance is no integer, an empty file, a four-column TSV
\* file, and a TSV file with a blank line and its queries out of order
QrelsTexts ==
    { <<"q", "u", "e", "r", "y", "-", "i", "d", "\t", "c", "o", "r", "p", "u", "s",
        "-", "i", "d", "\t", "s", "c", "o", "r", "e", "\n", "1", "\t", "a", "\t", "1",
        "\n", "1", "\t", "b", "\t", "1", "\n", "3", "\t", "a", "\t", "1", "\n", "3",
        "\t", "b", "\t", "0", "\n">>,
      <<"1", " ", "0", " ", "a", " ", "1", "\n">>,
      <<"3", "\t", "a", "\t", "x", "\n">>,
      <<>>,
      <<"3", "\t", "0", "\t", "a", "\t", "1", "\n">>,
      <<"3", "\t", "a", "\t", "1", "\n", "\n", "1", "\t", "a", "\t", "1", "\n">> }

\* the lines of the results files; the rank of the last but one, 10^309, is
\* too large for a float, and that of the last one has more digits than
\* int() converts
ResultLineTexts ==
    { <<"1", " ", "Q", "0", " ", "a", " ", "1", " ", "0", ".", "5", "0", "0", "0", " ",
        "t", "\n">>,
      <<"1", " ", "Q", "0", " ", "b", " ", "2", "0", "0", "0", "0", " ", "0", ".", "2",
        "5", "0", "0", " ", "t", "\n">>,
      <<"1", " ", "Q", "0", " ", "c", " ", "1", " ", "0", ".", "1", "0", "0", "0", " ",
        "t", "\n">>,
      <<"3", " ", "Q", "0", " ", "a", " ", "0", " ", "0", ".", "1", "0", "0", "0", " ",
        "t", "\n">>,
      <<"3", " ", "Q", "0", " ", "a", " ", "-", "2", " ", "1", "e", "3", " ", "t",
        "\n">>,
      <<"3", " ", "Q", "0", " ", "b", " ", "1", "_", "0", " ", ".", "5", " ", "t",
        "\n">>,
      <<"1", " ", "Q", "0", " ", "y", " ", "z", " ", "1", " ", "0", ".", "2", "8", "7",
        "7", " ", "t", "\n">>,
      <<"1", " ", "Q", "0", " ", "a", " ", "1", " ", "0", ".", "5", "\n">>,
      <<"1", " ", "Q", "0", " ", "a", " ", "1", " ", "x", " ", "t", "\n">>,
      <<"1", " ", "Q", "0", " ", "a", " ", "1">> \o [i \in 1..309 |-> "0"] \o <<" ", "0", ".", "1", " ", "t", "\n">>,
      <<"1", " ", "Q", "0", " ", "a", " ">> \o [i \in 1..(MaxStrDigits + 1) |-> "1"] \o <<" ", "0", ".", "1", " ", "t", "\n">> }

ResultsTexts == {Concat(ls) : ls \in SeqsUpTo(ResultLineTexts, MaxResultLines)}

\* a file system with the two files, each of them given as <<text>>, or as
\* <<>> when the file is not there
FileSystem(qt, rt) ==
    [p \in (IF qt = <<>> THEN {} ELSE {QrelsPath})
             \cup (IF rt = <<>> THEN {} ELSE {ResultsPath}) |->
        IF p = QrelsPath /\ qt # <<>> THEN qt[1] ELSE rt[1]]

(***************************************************************************)
(* Initial states.                                                         *)
(***************************************************************************)
\* run_system(run.use_full_text, run.output_file, run.run_tag) at the given
\* position ("idle" when it is not called): a parameter that is None (<<>>)
\* has got its default
IrStart(at, run) ==
    /\ ir_pc = at
    /\ ir_exc = NoException
    /\ use_full_text = run.use_full_text
    /\ output_file = (IF run.output_file = <<>> THEN OUTPUT_FILE ELSE run.output_file[1])
    /\ run_tag = (IF run.run_tag = <<>> THEN RUN_TAG ELSE run.run_tag[1])
    /\ corpus = run.corpus
    /\ inverted_index = EmptyMap
    /\ doc_lengths = EmptyMap
    /\ total_tokens = 0
    /\ num_docs = 0
    /\ avg_doc_length = DZero(0)
    /\ num_queries = 0
    /\ q_id = <<>>
    /\ q_tokens = <<>>
    /\ doc_scores = <<>>
    /\ sorted_docs = <<>>
    /\ run_results = <<>>

\* trec_eval.py is started
TrecStart ==
    /\ pc = "start"
    /\ exc = NoException
    /\ qrels = EmptyMap
    /\ results = EmptyMap
    /\ all_metrics = EmptyMap
    /\ query_metrics = EmptyMap
    /\ stdout = <<>>
    /\ exit_code = -1

\* evaluate_map.py is started
MapStart ==
    /\ em_pc = "start"
    /\ em_exc = NoException
    /\ em_qrels = <<>>
    /\ em_results = EmptyMap
    /\ map_score = DZero(0)
    /\ query_aps = EmptyMap
    /\ em_stdout = <<>>
    /\ em_exit_code = -1

\* the retrieval run, followed by the evaluation of the file it writes
InitIR ==
    /\ \E run \in Runs : IrStart("build_index", run)
    /\ argv = <<QrelsPath, output_file>>
    /\ files = FileSystem(<<<<"3", "\t", "x", "\t", "1", "\n", "1", "_", "1", "\t",
                              "y", " ", "z", "\t", "1", "\n">>>>, <<>>)
    /\ TrecStart
    /\ MapStart

\* the evaluation scripts on given files, or without their two arguments
InitEval ==
    /\ \/ /\ argv = <<QrelsPath, ResultsPath>>
          /\ \E qt \in {<<>>} \cup {<<t>> : t \in QrelsTexts},
                rt \in {<<>>} \cup {<<t>> : t \in ResultsTexts} :
               files = FileSystem(qt, rt)
       \/ /\ argv \in {<<>>, <<QrelsPath>>}
          /\ files = FileSystem(<<<<>>>>, <<<<>>>>)
    /\ \E run \in {r \in Runs : r.output_file = <<>>} : IrStart("idle", run)
    /\ TrecStart
    /\ MapStart

(***************************************************************************)
(* Next-state relations and specifications.                                *)
(***************************************************************************)
\* the retrieval run, then trec_eval's loaders on its output
NextIR ==
    \/ BuildIndexDoc
    \/ BuildIndexReturn
    \/ RunQuery
    \/ WriteResults
    \/ ir_pc = "done" /\ LoadQrels
    \/ ir_pc = "done" /\ LoadResults

SpecIR == InitIR /\ [][NextIR]_vars

\* trec_eval.py from start to exit
NextEval ==
    \/ Usage
    \/ LoadQrels
    \/ LoadResults
    \/ CalculateMetrics
    \/ PrintResults
    \/ MainExcept

SpecEval == InitEval /\ [][NextEval]_vars

\* both scripts on the same files: trec_eval.py from start to exit, then
\* evaluate_map.py from start to exit
NextAgree ==
    \/ NextEval
    \/ pc = "exit" /\ EmUsage
    \/ pc = "exit" /\ EmLoadQrels
    \/ pc = "exit" /\ EmLoadResults
    \/ pc = "exit" /\ EmCalculateMap
    \/ pc = "exit" /\ EmReport

SpecAgree == InitEval /\ [][NextAgree]_vars
(***************************************************************************)
(* Properties of the retrieval run (SpecIR).                               *)
(***************************************************************************)
\* the sum of f over the set S of its arguments
SumOver(f, S) ==
    Bind(SetToSeq(S),
         LAMBDA keys : Iterate(LAMBDA acc, i : acc + f[keys[i]], 0, 1, Len(keys)))

\* the document ids that hold at least one of the tokens
DocsMatching(tokens) ==
    UNION {{inverted_index[t][j][1] : j \in DOMAIN inverted_index[t]} :
             t \in Range(tokens) \cap DOMAIN inverted_index}

\* the BM25 contribution of a posting, for every (term, tf, document length)
\* that occurs among the postings of the tokens
ContributionsOf(tokens) ==
    [p \in UNION {{<<t, inverted_index[t][j][2], doc_lengths[inverted_index[t][j][1]]>> :
                     j \in DOMAIN inverted_index[t]} :
                    t \in Range(tokens) \cap DOMAIN inverted_index} |->
        Contribution(Idf(num_docs, Len(inverted_index[p[1]])), p[2], p[3],
                     avg_doc_length)]

\* sum plus the contributions c of the postings of term t at the positions
\* js, in their order
RECURSIVE AddPostings(_, _, _, _)
AddPostings(sum, t, js, c) ==
    IF js = {} THEN sum
    ELSE AddPostings(DAdd(sum, c[<<t, inverted_index[t][MinOf(js)][2],
                                   doc_lengths[inverted_index[t][MinOf(js)][1]]>>]),
                     t, js \ {MinOf(js)}, c)

\* the contributions c of the postings of document d added up from 0.0,
\* going through the tokens in their order and through the postings of each
\* token that is in the index in their order
ScoreOver(tokens, d, c) ==
    Iterate(LAMBDA acc, i :
                IF tokens[i] \notin DOMAIN inverted_index THEN acc
                ELSE AddPostings(acc, tokens[i],
                                 {j \in DOMAIN inverted_index[tokens[i]] :
                                    inverted_index[tokens[i]][j][1] = d}, c),
            DZero(0), 1, Len(tokens))

\* the distinct tokens of a sequence, each at its first occurrence
DistinctTokens(tokens) ==
    Bind({i \in DOMAIN tokens : \A j \in 1..(i - 1) : tokens[j] # tokens[i]},
         LAMBDA first :
             [k \in 1..Cardinality(first) |->
                 tokens[CHOOSE i \in first :
                          Cardinality({j \in first : j <= i}) = k]])

ScoredDocs == {doc_scores[i].doc_id : i \in DOMAIN doc_scores}

NoRepeatedDoc(seq) ==
    \A i, j \in DOMAIN seq : i # j => seq[i].doc_id # seq[j].doc_id

\* C4 as stated: the score of every document is the sum, over the distinct
\* in-index query tokens, of one contribution per posting of the document,
\* so that a repeated query token counts once.
C4_DistinctTokensOnce ==
    (ir_pc = "queries" /\ q_id # <<>>)
        => /\ ScoredDocs = DocsMatching(q_tokens)
           /\ Bind(ContributionsOf(q_tokens),
                   LAMBDA c :
                       \A i \in DOMAIN doc_scores :
                           doc_scores[i].score
                             = ScoreOver(DistinctTokens(q_tokens),
                                         doc_scores[i].doc_id, c))

\* C4 amended: every occurrence of an in-index token in the query token
\* sequence contributes once per posting, so a token repeated k times in the
\* query contributes k times to the score of every document that holds it.
C4_EveryOccurrenceCounts ==
    (ir_pc = "queries" /\ q_id # <<>>)
        => /\ ScoredDocs = DocsMatching(q_tokens)
           /\ NoRepeatedDoc(doc_scores)
           /\ Bind(ContributionsOf(q_tokens),
                   LAMBDA c :
                       \A i \in DOMAIN doc_scores :
                           doc_scores[i].score
                             = ScoreOver(q_tokens, doc_scores[i].doc_id, c))

\* a query with a repeated in-index token has been scored
C4_Witness ==
    /\ ir_pc = "queries"
    /\ q_id # <<>>
    /\ doc_scores # <<>>
    /\ \E i, j \in DOMAIN q_tokens :
         i # j /\ q_tokens[i] = q_tokens[j] /\ q_tokens[i] \in DOMAIN inverted_index

\* the query token sequences score_query is tried on
ProbeQueries ==
    SeqsUpTo({<<"a", "b">>, <<"c", "d">>, <<"z", "z">>}, 2)
      \cup {preprocess(q.text) : q \in QueryRecords}

\* C5: once build_index has returned an average document length of 0,
\* score_query on what it returned raises no ZeroDivisionError and returns an
\* empty score mapping, whatever the query tokens.
C5_ZeroAverageScoresNothing ==
    (ir_pc \in {"queries", "raised", "done"} /\ avg_doc_length.m = <<>>)
        => /\ ir_exc.type # "ZeroDivisionError"
           /\ \A tokens \in ProbeQueries :
                score_query(tokens, inverted_index, doc_lengths, avg_doc_length,
                            num_docs)
                  = [err |-> FALSE, scores |-> <<>>]

\* a corpus of documents that all normalize to zero tokens was indexed and a
\* query was scored on it
C5_Witness ==
    /\ ir_pc = "queries"
    /\ num_docs > 0
    /\ avg_doc_length.m = <<>>
    /\ q_id # <<>>
    /\ q_tokens # <<>>
    /\ doc_scores = <<>>

\* C6: every postings entry has term frequency >= 1 and every postings list
\* holds at most one entry per document id.
C6_PostingsWellFormed ==
    \A t \in DOMAIN inverted_index :
        \A i \in DOMAIN inverted_index[t] :
            /\ inverted_index[t][i][2] >= 1
            /\ \A j \in DOMAIN inverted_index[t] :
                 i # j => inverted_index[t][i][1] # inverted_index[t][j][1]

\* the tuples the query processed last has appended to run_system's results
Emitted ==
    SubSeq(run_results, Len(run_results) - Len(sorted_docs) + 1, Len(run_results))

\* C7: the results emitted for a processed query have the ranks 1..m, with
\* m = min(100, number of document ids that hold at least one query token),
\* no document id twice, and scores that do not increase with the rank.
C7_DenseRanksSortedScores ==
    (ir_pc = "queries" /\ q_id # <<>>)
        => /\ Len(sorted_docs) = Min(100, Cardinality(DocsMatching(q_tokens)))
           /\ Len(run_results) >= Len(sorted_docs)
           /\ \A i \in DOMAIN Emitted :
                /\ Emitted[i].rank = i
                /\ Emitted[i].q_id = q_id
                /\ Emitted[i].doc_id \in DocsMatching(q_tokens)
           /\ NoRepeatedDoc(Emitted)
           /\ \A i \in DOMAIN Emitted :
                i > 1 => ~KeyLess(DKey(Emitted[i - 1].score), DKey(Emitted[i].score))

\* a query that matches more than 100 documents was ranked and cut to 100
C7_Witness ==
    /\ ir_pc = "queries"
    /\ q_id # <<>>
    /\ Len(doc_scores) > 100
    /\ Len(sorted_docs) = 100
    /\ \E i \in DOMAIN sorted_docs :
         i > 1 /\ KeyLess(DKey(sorted_docs[i].score), DKey(sorted_docs[i - 1].score))

\* the tuples of query q in run_system's sorted list, in order
ResultsOf(q) == SelectSeq(run_results, LAMBDA t : t.q_id = q)

\* |x - y| <= 0.00005: x is y rounded to four decimals
RoundedTo4(x, y) ==
    ~KeyLess(DKey(DOfDecimal(0, <<5>>, -5)), DKey([DSub(x, y) EXCEPT !.s = 0]))

\* the mapping read back equals the list written, query by query: same
\* documents and ranks in the same order, scores equal to four decimals
SameTuples(read) ==
    /\ DOMAIN read = {run_results[i].q_id : i \in DOMAIN run_results}
    /\ \A q \in DOMAIN read :
         /\ Len(read[q]) = Len(ResultsOf(q))
         /\ \A k \in DOMAIN read[q] :
              /\ read[q][k].doc_id = ResultsOf(q)[k].doc_id
              /\ read[q][k].rank = IntVal(FALSE, NatToBig(ResultsOf(q)[k].rank))
              /\ RoundedTo4(read[q][k].score, ResultsOf(q)[k].score)

\* the results file has been written and trec_eval.load_results has read it
ReadBack ==
    /\ ir_pc = "done"
    /\ pc = "loaded" \/ (pc = "except" /\ exc.type = "ValueError")

IsToken(s) == s # <<>> /\ \A i \in DOMAIN s : s[i] \notin Whitespace

\* C10 as stated: for every result list run_system writes, both load_results
\* functions read back the same tuples per query.
C10_RoundTrip ==
    ReadBack
        => /\ pc = "loaded"
           /\ SameTuples(results)
           /\ em_load_results(files, output_file) = [exc |-> NoException, val |-> results]

\* C10 amended: the round trip holds for every result list whose query ids
\* and document ids are non-empty and free of whitespace, written with a run
\* tag that holds a character other than whitespace.
C10_RoundTripOfTokens ==
    (/\ ReadBack
     /\ \E i \in DOMAIN run_tag : run_tag[i] \notin Whitespace
     /\ \A i \in DOMAIN run_results :
          IsToken(run_results[i].doc_id) /\ IsToken(run_results[i].q_id))
        => /\ pc = "loaded"
           /\ SameTuples(results)
           /\ em_load_results(files, output_file) = [exc |-> NoException, val |-> results]

\* the results of two queries, one of them with two documents and a score
\* that four decimals do not hold, were written and read back
C10_Witness ==
    /\ ReadBack
    /\ pc = "loaded"
    /\ Cardinality(DOMAIN results) = 2
    /\ \E q \in DOMAIN results :
         /\ Len(results[q]) >= 2
         /\ \E k \in DOMAIN results[q] : results[q][k].score # ResultsOf(q)[k].score

(***************************************************************************)
(* Properties of the evaluation tool (SpecEval).                           *)
(***************************************************************************)
\* the query ids in both qrels and results whose relevant set is not empty
Qualifying == {q \in DOMAIN qrels \cap DOMAIN results : qrels[q] # {}}

\* C1: for every evaluated query with R = |relevant| >= 1, R-Precision is the
\* number of relevant documents among the first min(R, retrieved) retrieved
\* documents divided by R, also when fewer than R documents were retrieved.
C1_RPrecisionPenalized ==
    pc = "computed"
        => \A q \in DOMAIN query_metrics :
              Cardinality(qrels[q]) >= 1
                => query_metrics[q].Rprec =
                     DDiv(DFromInt(RelevantUpTo(qrels[q], results[q],
                                       Min(Cardinality(qrels[q]), Len(results[q])))),
                          DFromInt(Cardinality(qrels[q])))

\* 0 <= x <= 1
InUnitInterval(x) ==
    /\ x.k = "fin"
    /\ x.s = 0 \/ x.m = <<>>
    /\ ~KeyLess(DKey(DFromInt(1)), DKey(x))

\* C2: the Average Precision of trec_eval.calculate_metrics and of
\* evaluate_map.calculate_average_precision (in calculate_map) lies in [0, 1]
\* for every relevant set and every retrieved list load_results produces.
C2_AveragePrecisionBounded ==
    /\ \A q \in DOMAIN query_metrics : InUnitInterval(query_metrics[q].ap)
    /\ \A q \in DOMAIN query_aps : InUnitInterval(query_aps[q])

\* calculate_metrics has returned: main is about to print, or has printed
Returned ==
    \/ pc = "computed"
    \/ pc \in {"except", "exit"} /\ Len(argv) = 2 /\ exc.type \in {"", "KeyError"}

\* C3: when no query qualifies, the tool reports the aggregates and ends
\* normally: print_results raises nothing and main does not take the error
\* exit.
C3_NoQueryEndsNormally ==
    (Returned /\ Qualifying = {})
        => /\ exc = NoException
           /\ pc = "exit"
                => /\ exit_code = 0
                   /\ \E i \in DOMAIN stdout : StartsWith(stdout[i], <<"n", "u", "m", "_", "q">>)

\* the position of the first relevant document of query q, which has one
FirstRelevant(q) == MinOf({i \in DOMAIN results[q] : results[q][i].doc_id \in qrels[q]})

HasRelevant(q) == \E i \in DOMAIN results[q] : results[q][i].doc_id \in qrels[q]

\* the recorded reciprocal rank of q is the float 1.0 / r for the rank field
\* r of its first relevant document, or 0.0 when it has none
ReciprocalOfRank(q) ==
    IF HasRelevant(q)
    THEN /\ results[q][FirstRelevant(q)].rank.mag # <<>>
         /\ query_metrics[q].recip_rank
              = DDiv(DFromInt(1), DFromBig(results[q][FirstRelevant(q)].rank))
    ELSE query_metrics[q].recip_rank = DZero(0)

\* calculate_metrics has been called and has returned or raised
Calculated ==
    \/ pc = "computed"
    \/ pc = "except" /\ exc.type \in {"ZeroDivisionError", "OverflowError"}

\* C8 as stated: calculate_metrics gives every evaluated query the reciprocal
\* rank 1/r, r the rank field of its first relevant document (0.0 without
\* one), for every rank value load_results accepts.
C8_ReciprocalRank ==
    Calculated
        => /\ pc = "computed"
           /\ DOMAIN query_metrics = Qualifying
           /\ \A q \in DOMAIN query_metrics : ReciprocalOfRank(q)

\* a line of the results file has a rank field of more digits than int()
\* converts
RankTooLong ==
    \E line \in Range(ReadLines(files[argv[2]])) :
        /\ Len(split(line)) >= 6
        /\ TooManyDigits(split(line)[4]) > 0

\* C8 amended: the same for every rank value that is not 0 and that float()
\* can hold; calculate_metrics raises exactly when the first relevant
\* document of some evaluated query has the rank 0 (ZeroDivisionError) or a
\* rank too large for a float (OverflowError).  A rank of more than 4300
\* digits never comes that far: load_results raises ValueError on it.
C8_ReciprocalRankOfFloatRank ==
    Calculated
        => /\ ~RankTooLong
           /\ pc = "except"
                <=> \E q \in Qualifying :
                       /\ HasRelevant(q)
                       /\ \/ results[q][FirstRelevant(q)].rank.mag = <<>>
                          \/ DFromBig(results[q][FirstRelevant(q)].rank).k = "inf"
           /\ pc = "computed"
                => /\ DOMAIN query_metrics = Qualifying
                   /\ \A q \in DOMAIN query_metrics : ReciprocalOfRank(q)

\* a query whose first relevant document stands first in its list with the
\* rank 20000 was evaluated
C8_Witness ==
    /\ pc = "computed"
    /\ \E q \in DOMAIN query_metrics :
         /\ HasRelevant(q)
         /\ FirstRelevant(q) = 1
         /\ results[q][1].rank = IntVal(FALSE, NatToBig(20000))
         /\ query_metrics[q].recip_rank = DDiv(DFromInt(1), DFromInt(20000))

\* C9: the queries with a metrics record are the qualifying ones, num_q is
\* their number and num_rel, num_ret, num_rel_ret are the sums over them of
\* |relevant|, |retrieved| and the relevant-retrieved count.
C9_EvaluatedSetAndTotals ==
    pc = "computed"
        => /\ DOMAIN query_metrics = Qualifying
           /\ {"num_q", "num_rel", "num_ret", "num_rel_ret"} \subseteq DOMAIN all_metrics
           /\ all_metrics.num_q = Cardinality(Qualifying)
           /\ all_metrics.num_rel =
                SumOver([q \in Qualifying |-> Cardinality(qrels[q])], Qualifying)
           /\ all_metrics.num_ret =
                SumOver([q \in Qualifying |-> Len(results[q])], Qualifying)
           /\ all_metrics.num_rel_ret =
                SumOver([q \in Qualifying |->
                           RelevantUpTo(qrels[q], results[q], Len(results[q]))],
                        Qualifying)

(***************************************************************************)
(* Properties of the two evaluators side by side (SpecAgree).              *)
(***************************************************************************)
\* the qrels of evaluate_map as a mapping
QrelsMap ==
    [q \in {em_qrels[i].query_id : i \in DOMAIN em_qrels} |->
        em_qrels[CHOOSE i \in DOMAIN em_qrels : em_qrels[i].query_id = q].relevant_docs]

\* what calculate_metrics returns (r) is what calculate_map has returned
AgreesWithMap(r) ==
    /\ r.exc = NoException
    /\ DOMAIN r.per = DOMAIN query_aps
    /\ "map" \in DOMAIN r.all
    /\ r.all.map = map_score
    /\ \A q \in DOMAIN r.per : r.per[q].ap = query_aps[q]

\* C11: the two evaluators agree.  Once calculate_map has returned,
\* calculate_metrics on the same qrels and results evaluates the same set of
\* queries, its 'map' is there and equals calculate_map's MAP, and each
\* evaluated query has the same AP in both.
C11_EvaluatorsAgree ==
    em_pc = "computed" => AgreesWithMap(calculate_metrics(QrelsMap, em_results))
====
